---- MODULE Spec2Model ----
(***************************************************************************)
(* A model of the multi-host APK uploader (gofile): the filename parser,   *)
(* the three host adapters' request routines, the stall-detecting file     *)
(* wrapper, the folder cache, initialization and the per-host upload       *)
(* procedures.  Each component has its own specification over the shared   *)
(* variables; a component's actions leave the other components alone.      *)
(***************************************************************************)
EXTENDS Integers, Sequences, FiniteSets, TLC

VARIABLES
    \* ---- parse_apk_filename -------------------------------------------
    filename,       \* the string handed to parse_apk_filename (a sequence of characters)
    parsed,         \* its return value: None or the dictionary
    parsePc,        \* "input" before the call, "parsed" after it
    \* ---- one call of a host adapter --------------------------------------
    adapter,        \* the adapter called: "gofile", "buzzheavier" or "pixeldrain"
    op,             \* the method called
    max_retries,    \* the max_retries argument of _make_request_with_retry
    attempt,        \* the loop variable of _make_request_with_retry
    responses,      \* the responses the host has given to this call's requests
    sleeps,         \* the arguments of the time.sleep calls made, in order
    outcome,        \* "pending", "data" (returned), "none" (returned None) or the exception raised
    rqPc,           \* "off", "call" (running) or "done"
    \* ---- one streamed upload through ProgressTrackingFile ---------------
    upHost,          \* whose upload_file runs: "buzzheavier" or "pixeldrain"
    now,             \* time.time(), in clock ticks
    last_read_time,  \* ProgressTrackingFile.last_read_time
    timeout_seconds, \* ProgressTrackingFile.timeout_seconds (upload_stall_timeout), in ticks
    chunksLeft,      \* the chunks of the file not yet read
    upOutcome,       \* what upload_file returned or raised: [exc, msg]
    upPc,            \* "off", "reading", "sending", "waiting", "done"
    lastDataAt,      \* when read() last returned data (-1: not yet); kept for the claims
    dataGapMax,      \* the longest time between two reads that returned data
    readGapMax,      \* the longest time a read() call came after the last data (or the start)
    \* ---- the session (fields of DragDropUploader) -----------------------
    api,              \* per host: TRUE when the adapter object is set (not None)
    root_folder_id,   \* per hierarchical host: the root folder id, or None
    host_ready,       \* per host: _gofile_ready, _buzzheavier_ready, _pixeldrain_ready
    is_ready,         \* the overall ready flag
    folder_structure, \* per hierarchical host: the dictionary package -> parent folder id
    cache_data,       \* self.cache_data: None or the loaded cache document
    \* ---- initialize_api and the folder cache file ------------------------
    cache_file,       \* the content of the folder cache file
    connPc,           \* per host: the connect thread, "unstarted", "running", "returned", "died"
    source,           \* per hierarchical host: where its folder structure came from
    initPc,           \* the position of the initialization thread
    \* ---- save_folder_cache calls in progress ------------------------------
    savePc,           \* per hierarchical host: "off", "called", "merged", "saved", "failed"
    saveLocal,        \* per hierarchical host: the call's local cache_data
    \* ---- upload_file and its three host threads ----------------------------
    file_path,        \* the dropped file: [name, exists, isfile]
    enabled,          \* per host: the host's toggle
    last_upload_parsed_info, \* None or the parsed name kept for the retry buttons
    last_upload_file_path,   \* <<>> or the path kept for the retry buttons
    threadPc,         \* per host: the position of the host's upload thread
    callLog,          \* per host: the adapter calls made and what each gave
    link,             \* per host: gofile_link, buzzheavier_link, pixeldrain_link
    status_emoji,     \* per host: the last value given to _update_status_emoji
    success_count,    \* the summary's count
    summary,          \* the level of the summary's last line: "none" before it is written
    link_entry,       \* per host: the text of the host's link entry
    parse_calls,      \* the number of parse_apk_filename calls made
    retry_clicks,     \* per host: the number of retry requests made for the host
    uploadPc,         \* the position of upload_file
    \* ---- sessions over one cache file --------------------------------------
    session,          \* the number of the running session
    loadLog,          \* the load_folder_cache calls made: file before, result, file after
    lastSave,         \* the last save_folder_cache call, while the file is as it left it
    roundTrip,        \* that call and the result of the load_folder_cache call after it
    scanBuilt,        \* per host: the dictionary a scan built and the entry it stored
    \* ---- the readiness flags and their lock ----------------------------------
    ready_lock,       \* self._ready_lock: "free" or the thread holding it
    accesses,         \* the reads and writes of the flags made: flag, kind, lock held or not
    netUnderLock,     \* whether a network call was made by a thread holding the lock
    readerPc,         \* a front end reading is_ready: its position in the getter
    \* ---- upload_file calls and retry requests side by side --------------------
    dropPc,           \* per upload_file call: its position
    dropFile,         \* per upload_file call: the file it was given
    retryPc,          \* per host: the retry request, "idle" or "clicked" (its thread not yet run)
    retryParsed,      \* per host: the identity the retry request captured
    lastStart,        \* what the last request came to: the procedures started, or a refusal
    \* ---- procedures of one host side by side, and the host's folders --------
    pairHost,         \* the hierarchical host the procedures are for
    procPc,           \* per procedure: its position
    procParent,       \* per procedure: its local parent_id
    remote            \* the folders on the hosts: host, id, the folder it is under, name

parseVars == <<filename, parsed, parsePc>>
requestVars == <<adapter, op, max_retries, attempt, responses, sleeps, outcome, rqPc>>
stallVars == <<upHost, now, last_read_time, timeout_seconds, chunksLeft, upOutcome, upPc,
               lastDataAt, dataGapMax, readGapMax>>

sessionVars == <<api, root_folder_id, host_ready, is_ready, folder_structure, cache_data>>
initVars == <<cache_file, connPc, source, initPc>>

saveVars == <<savePc, saveLocal>>

uploadVars == <<file_path, enabled, last_upload_parsed_info, last_upload_file_path, threadPc, callLog, link,
                status_emoji, success_count, summary, link_entry, parse_calls,
                retry_clicks, uploadPc>>

storeVars == <<session, loadLog, lastSave, roundTrip, scanBuilt>>
lockVars == <<ready_lock, accesses, netUnderLock, readerPc>>
dropVars == <<dropPc, dropFile, retryPc, retryParsed, lastStart>>
pairVars == <<pairHost, procPc, procParent, remote>>

vars == <<parseVars, requestVars, stallVars, sessionVars, initVars, saveVars, uploadVars,
          storeVars, lockVars, dropVars, pairVars>>

\* What each component's actions leave alone.
NotParse == <<requestVars, stallVars, sessionVars, initVars, saveVars, uploadVars, storeVars, lockVars, dropVars, pairVars>>
NotRequest == <<parseVars, stallVars, sessionVars, initVars, saveVars, uploadVars, storeVars, lockVars, dropVars, pairVars>>
NotStall == <<parseVars, requestVars, sessionVars, initVars, saveVars, uploadVars, storeVars, lockVars, dropVars, pairVars>>
NotInit == <<parseVars, requestVars, stallVars, saveVars, uploadVars, storeVars, lockVars, dropVars, pairVars>>
NotSave == <<parseVars, requestVars, stallVars, sessionVars, uploadVars, storeVars, lockVars, dropVars, pairVars>>
NotUpload == <<parseVars, requestVars, stallVars, initVars, saveVars, storeVars, lockVars, dropVars, pairVars>>
NotStore == <<parseVars, requestVars, stallVars, saveVars, uploadVars, lockVars, dropVars, pairVars>>
NotLock == <<parseVars, requestVars, stallVars, saveVars, uploadVars, storeVars, dropVars, pairVars>>
NotDrops == <<parseVars, requestVars, stallVars, initVars, saveVars, storeVars, lockVars, pairVars>>
NotPair == <<parseVars, requestVars, stallVars, initVars, saveVars, uploadVars, storeVars, lockVars, dropVars>>

(***************************************************************************)
(* Python's None.  Optional values are None or a record without the        *)
(* field isNone.                                                           *)
(***************************************************************************)
None == [isNone |-> TRUE]

\* None where the value is otherwise a string (an id, a link).
NoneStr == "None"

(***************************************************************************)
(* A component that a specification does not exercise stays idle.          *)
(***************************************************************************)
ParseIdle ==
    /\ filename = <<>>
    /\ parsed = None
    /\ parsePc = "off"

RequestIdle ==
    /\ adapter = "gofile"
    /\ op = "none"
    /\ max_retries = 0
    /\ attempt = 0
    /\ responses = <<>>
    /\ sleeps = <<>>
    /\ outcome = "pending"
    /\ rqPc = "off"

StallIdle ==
    /\ upHost = "buzzheavier"
    /\ now = 0
    /\ last_read_time = 0
    /\ timeout_seconds = 0
    /\ chunksLeft = 0
    /\ upOutcome = [exc |-> "pending", msg |-> ""]
    /\ upPc = "off"
    /\ lastDataAt = -1
    /\ dataGapMax = 0
    /\ readGapMax = 0

Hosts == {"gofile", "buzzheavier", "pixeldrain"}

\* The hosts that keep folders: build_folder_structure serves these two.
HierarchicalHosts == {"gofile", "buzzheavier"}

\* The session as __init__ leaves it.
SessionFresh ==
    /\ api = [h \in Hosts |-> FALSE]
    /\ root_folder_id = [h \in HierarchicalHosts |-> NoneStr]
    /\ host_ready = [h \in Hosts |-> FALSE]
    /\ is_ready = FALSE
    /\ folder_structure = [h \in HierarchicalHosts |-> {}]
    /\ cache_data = None

InitIdle ==
    /\ cache_file = [kind |-> "absent"]
    /\ connPc = [h \in Hosts |-> "unstarted"]
    /\ source = [h \in HierarchicalHosts |-> "none"]
    /\ initPc = "off"

SaveIdle ==
    /\ savePc = [h \in HierarchicalHosts |-> "off"]
    /\ saveLocal = [h \in HierarchicalHosts |-> None]

UploadIdle ==
    /\ file_path = [name |-> <<>>, exists |-> FALSE, isfile |-> FALSE]
    /\ enabled = [h \in Hosts |-> TRUE]
    /\ last_upload_parsed_info = None
    /\ last_upload_file_path = <<>>
    /\ threadPc = [h \in Hosts |-> "off"]
    /\ callLog = [h \in Hosts |-> <<>>]
    /\ link = [h \in Hosts |-> NoneStr]
    /\ status_emoji = [h \in Hosts |-> "none"]
    /\ success_count = 0
    /\ summary = "none"
    /\ link_entry = [h \in Hosts |-> ""]
    /\ parse_calls = 0
    /\ retry_clicks = [h \in Hosts |-> 0]
    /\ uploadPc = "off"

StoreIdle ==
    /\ session = 0
    /\ loadLog = <<>>
    /\ lastSave = None
    /\ roundTrip = None
    /\ scanBuilt = [h \in HierarchicalHosts |-> None]

LockIdle ==
    /\ ready_lock = "free"
    /\ accesses = {}
    /\ netUnderLock = FALSE
    /\ readerPc = "off"

MaxDrops == 2

DropsIdle ==
    /\ dropPc = [d \in 1..MaxDrops |-> "idle"]
    /\ dropFile = [d \in 1..MaxDrops |-> None]
    /\ retryPc = [h \in Hosts |-> "idle"]
    /\ retryParsed = [h \in Hosts |-> None]
    /\ lastStart = {}

MaxProcs == 2

PairIdle ==
    /\ pairHost = "gofile"
    /\ procPc = [i \in 1..MaxProcs |-> "off"]
    /\ procParent = [i \in 1..MaxProcs |-> NoneStr]
    /\ remote = {}

Min(S) == CHOOSE x \in S : \A y \in S : x <= y
Max(S) == CHOOSE x \in S : \A y \in S : x >= y

(***************************************************************************)
(*                        parse_apk_filename                               *)
(***************************************************************************)

\* Bound: the longest filename stem (the part before the extension) that is drawn.
MaxNameLen == 6

Digits == {"0", "1", "2", "3", "4", "5", "6", "7", "8", "9"}
Lowers == {"a", "b", "c", "d", "e", "f", "g", "h", "i", "j", "k", "l", "m",
           "n", "o", "p", "q", "r", "s", "t", "u", "v", "w", "x", "y", "z"}
Uppers == {"A", "B", "C", "D", "E", "F", "G", "H", "I", "J", "K", "L", "M",
           "N", "O", "P", "Q", "R", "S", "T", "U", "V", "W", "X", "Y", "Z"}

\* The characters the stems are drawn from: a letter, a digit, the dot, the
\* hyphen, and one character ("_") outside the version token's classes.
NameChars == {"a", "1", ".", "-", "_"}

\* The endings that are drawn: none, the extension in two cases, another extension.
Extensions == { <<>>,
                <<".", "a", "p", "k">>,
                <<".", "A", "P", "K">>,
                <<".", "z", "i", "p">> }

Stems == UNION { [1..n -> NameChars] : n \in 0..MaxNameLen }

\* str.lower() on one character
LowerChar(c) ==
    CASE c = "A" -> "a" [] c = "B" -> "b" [] c = "C" -> "c" [] c = "D" -> "d"
      [] c = "E" -> "e" [] c = "F" -> "f" [] c = "G" -> "g" [] c = "H" -> "h"
      [] c = "I" -> "i" [] c = "J" -> "j" [] c = "K" -> "k" [] c = "L" -> "l"
      [] c = "M" -> "m" [] c = "N" -> "n" [] c = "O" -> "o" [] c = "P" -> "p"
      [] c = "Q" -> "q" [] c = "R" -> "r" [] c = "S" -> "s" [] c = "T" -> "t"
      [] c = "U" -> "u" [] c = "V" -> "v" [] c = "W" -> "w" [] c = "X" -> "x"
      [] c = "Y" -> "y" [] c = "Z" -> "z" [] OTHER -> c

Lower(s) == [i \in 1..Len(s) |-> LowerChar(s[i])]

\* s.endswith(suffix)
EndsWith(s, suffix) ==
    /\ Len(s) >= Len(suffix)
    /\ SubSeq(s, Len(s) - Len(suffix) + 1, Len(s)) = suffix

ApkExt == <<".", "a", "p", "k">>

\* [0-9]+(?:\.[0-9]+)*  matches the whole of s
IsDigitGroups(s) ==
    /\ Len(s) >= 1
    /\ \A i \in 1..Len(s) : s[i] \in Digits \cup {"."}
    /\ s[1] \in Digits
    /\ s[Len(s)] \in Digits
    /\ \A i \in 1..(Len(s) - 1) : ~(s[i] = "." /\ s[i + 1] = ".")

\* [a-zA-Z0-9\+\.]
VersionTailChars == Lowers \cup Uppers \cup Digits \cup {"+", "."}

\* ([0-9]+(?:\.[0-9]+)*(?:[a-zA-Z0-9\+\.]*))  matches the whole of s
IsVersionToken(s) ==
    \E k \in 1..Len(s) :
        /\ IsDigitGroups(SubSeq(s, 1, k))
        /\ \A i \in (k + 1)..Len(s) : s[i] \in VersionTailChars

\* The positions j at which group 2, started at position s, can end so that
\* the rest of the name matches (?:-.*)?$
VersionEnds(name, s) ==
    { j \in s..Len(name) :
        /\ IsVersionToken(SubSeq(name, s, j))
        /\ (j = Len(name) \/ name[j + 1] = "-") }

\* The lengths k of group 1 (.+?) for which the whole pattern matches:
\* a non-empty prefix, then "-", then a version token, then end or "-".*
PackageEndsAll(name) ==
    { k \in 1..(Len(name) - 2) :
        /\ name[k + 1] = "-"
        /\ VersionEnds(name, k + 2) # {} }

\* The lazy quantifier .+? makes the matcher try the shortest group 1 first.
PackageEndLazy(S) == Min(S)
PackageEndGreedy(S) == Max(S)
PackageEnd(S) == PackageEndLazy(S)

\* re.match(r'^(.+?)-([0-9]+(?:\.[0-9]+)*(?:[a-zA-Z0-9\+\.]*))(?:-.*)?$', name)
ReMatch(name) ==
    IF PackageEndsAll(name) = {} THEN None
    ELSE LET k == PackageEnd(PackageEndsAll(name))
             j == Max(VersionEnds(name, k + 2))   \* the token's loops are greedy
         IN  [group1 |-> SubSeq(name, 1, k), group2 |-> SubSeq(name, k + 2, j)]

\* The extension test of parse_apk_filename
HasApkExtCaseInsensitive(fname) == EndsWith(Lower(fname), ApkExt)
HasApkExtCaseSensitive(fname) == EndsWith(fname, ApkExt)
HasApkExt(fname) == HasApkExtCaseInsensitive(fname)

parse_apk_filename(fname) ==
    IF ~HasApkExt(fname) THEN None
    ELSE LET name_without_ext == SubSeq(fname, 1, Len(fname) - 4)
             match == ReMatch(name_without_ext)
         IN  IF match # None
             THEN [package   |-> match.group1,
                   version   |-> match.group2,
                   full_name |-> name_without_ext,
                   filename  |-> fname]
             ELSE None

ParseInit ==
    /\ filename \in { s \o e : s \in Stems, e \in Extensions }
    /\ parsed = None
    /\ parsePc = "input"

\* One call of parse_apk_filename
Parse ==
    /\ parsePc = "input"
    /\ parsed' = parse_apk_filename(filename)
    /\ parsePc' = "parsed"
    /\ UNCHANGED <<filename, NotParse>>

ParseNext == Parse

InitParse ==
    ParseInit /\ RequestIdle /\ StallIdle /\ SessionFresh /\ InitIdle /\ SaveIdle /\ UploadIdle /\ StoreIdle /\ LockIdle /\ DropsIdle /\ PairIdle

SpecParse == InitParse /\ [][ParseNext]_vars

(***************************************************************************)
(* Claims about parse_apk_filename.  The claims speak of the stem (the     *)
(* filename without its four-character extension) and of its hyphens.      *)
(***************************************************************************)
StemOf(fname) == SubSeq(fname, 1, Len(fname) - 4)

\* The version token in the claims' words.  A string is "digit groups
\* separated by dots, then characters of [A-Za-z0-9+.]" exactly when it
\* starts with a digit and holds only characters of [A-Za-z0-9+.].
ClaimVersionToken(s) ==
    /\ Len(s) >= 1
    /\ s[1] \in Digits
    /\ \A i \in 1..Len(s) : s[i] \in Lowers \cup Uppers \cup Digits \cup {"+", "."}

\* The position of the first hyphen after position h, or one past the end.
NextHyphenOrEnd(name, h) ==
    Min({ i \in (h + 1)..Len(name) : name[i] = "-" } \cup {Len(name) + 1})

\* The hyphen at position h begins a valid version token: what follows it,
\* up to the next hyphen or the end of the name, is a version token.
BeginsVersionToken(name, h) ==
    /\ h \in 1..Len(name)
    /\ name[h] = "-"
    /\ ClaimVersionToken(SubSeq(name, h + 1, NextHyphenOrEnd(name, h) - 1))

\* A package identifier: starts with a letter, and holds letters, digits,
\* underscores, dots and hyphens.
PackageIdentifier(s) ==
    /\ Len(s) >= 1
    /\ s[1] \in Lowers \cup Uppers
    /\ \A i \in 1..Len(s) : s[i] \in Lowers \cup Uppers \cup Digits \cup {"_", ".", "-"}

\* The ways to read name as pkg "-" version ["-" suffix]: <<k, j>> with
\* pkg = name[1..k], version = name[k+2..j].
Readings(name) ==
    { r \in (1..Len(name)) \X (1..Len(name)) :
        /\ r[1] + 2 <= r[2]
        /\ PackageIdentifier(SubSeq(name, 1, r[1]))
        /\ name[r[1] + 1] = "-"
        /\ ClaimVersionToken(SubSeq(name, r[1] + 2, r[2]))
        /\ (r[2] = Len(name) \/ name[r[2] + 1] = "-") }

\* No hyphen inside pkg = name[1..k] begins a version token.
NoVersionHyphenInside(name, k) ==
    \A h \in 2..k : ~BeginsVersionToken(name, h)

ParsedAs(name, r) ==
    /\ parsed # None
    /\ parsed.package = SubSeq(name, 1, r[1])
    /\ parsed.version = SubSeq(name, r[1] + 2, r[2])
    /\ parsed.full_name = name

\* C8 as stated: for every filename pkg-version[-suffix].apk, with hyphens
\* allowed anywhere in pkg, the parser returns package = pkg, version =
\* version and full_name = the filename without its extension.
C8_AnyHyphenatedPackage ==
    (parsePc = "parsed" /\ EndsWith(filename, ApkExt)) =>
        \A r \in Readings(StemOf(filename)) : ParsedAs(StemOf(filename), r)

\* C8 amended: the same, for the filenames in which no hyphen inside pkg
\* begins a version token (a digit-led run of [A-Za-z0-9+.] that reaches
\* the next hyphen).
C8_PackageVersionFullName ==
    (parsePc = "parsed" /\ EndsWith(filename, ApkExt)) =>
        \A r \in Readings(StemOf(filename)) :
            NoVersionHyphenInside(StemOf(filename), r[1])
                => ParsedAs(StemOf(filename), r)

\* C8 witness: a parsed filename whose package holds a hyphen and which
\* carries a suffix after the version.
C8_Witness ==
    /\ parsePc = "parsed"
    /\ EndsWith(filename, ApkExt)
    /\ \E r \in Readings(StemOf(filename)) :
        /\ NoVersionHyphenInside(StemOf(filename), r[1])
        /\ \E h \in 2..r[1] : StemOf(filename)[h] = "-"
        /\ r[2] < Len(StemOf(filename))
        /\ ParsedAs(StemOf(filename), r)

\* The hyphens of name that begin a valid version token, from position
\* `from` on.
VersionHyphens(name, from) ==
    { h \in from..Len(name) : BeginsVersionToken(name, h) }

\* C9 as stated: None when the extension is not .apk (in any case) or when
\* no hyphen is followed by a valid version token; otherwise the package
\* is the non-empty prefix before the first hyphen that begins one.
C9_FirstVersionHyphen ==
    parsePc = "parsed" =>
        IF ~EndsWith(Lower(filename), ApkExt)
              \/ VersionHyphens(StemOf(filename), 1) = {}
        THEN parsed = None
        ELSE /\ parsed # None
             /\ Len(parsed.package) >= 1
             /\ parsed.package =
                  SubSeq(StemOf(filename), 1,
                         Min(VersionHyphens(StemOf(filename), 1)) - 1)

\* C9 amended: a hyphen that is the first character of the name cannot end
\* a package, so it is not counted: None when the extension is not .apk or
\* when no hyphen after the first character begins a valid version token;
\* otherwise the package is the prefix before the first such hyphen.
C9_ShortestPackage ==
    parsePc = "parsed" =>
        IF ~EndsWith(Lower(filename), ApkExt)
              \/ VersionHyphens(StemOf(filename), 2) = {}
        THEN parsed = None
        ELSE /\ parsed # None
             /\ Len(parsed.package) >= 1
             /\ parsed.package =
                  SubSeq(StemOf(filename), 1,
                         Min(VersionHyphens(StemOf(filename), 2)) - 1)

\* C9 witness: an upper-case extension, and two hyphens that each begin a
\* version token, the package ending at the first.
C9_Witness ==
    /\ parsePc = "parsed"
    /\ EndsWith(Lower(filename), ApkExt)
    /\ ~EndsWith(filename, ApkExt)
    /\ Cardinality(VersionHyphens(StemOf(filename), 2)) >= 2
    /\ parsed # None
    /\ parsed.package =
         SubSeq(StemOf(filename), 1, Min(VersionHyphens(StemOf(filename), 2)) - 1)

(***************************************************************************)
(*     The host adapters: one call, its requests and its rate-limit        *)
(*     handling (gofile_api.py, buzzheavier_api.py, pixeldrain_api.py)     *)
(***************************************************************************)

\* Bound: the largest max_retries argument that is drawn.
MaxRetriesBound == 4

\* max_retries: int = 3
DefaultMaxRetries == 3

BACKOFF_BASE_SECONDS == 5

\* wait_time = (2 ** attempt) * 2, the back-off of pixeldrain's network errors
NetworkBackoffBase == 2

Adapters == {"gofile", "buzzheavier", "pixeldrain"}

RetryRoutine == "_make_request_with_retry"

\* The methods the folder resolution and the upload paths call; each issues
\* its request on the session itself and hands the response to _handle_response.
DirectOps(a) ==
    CASE a = "gofile"      -> {"create_folder", "get_content", "upload_file", "update_content"}
      [] a = "buzzheavier" -> {"create_folder", "get_content", "upload_file"}
      [] a = "pixeldrain"  -> {"upload_file"}

\* What a request can come back with: a success, HTTP 429, HTTP 5xx, another
\* HTTP error, or no response at all (the session raises).
ResponseKinds == {"ok", "rate_limited", "server_error", "client_error", "conn_error"}

RECURSIVE Pow2(_)
Pow2(n) == IF n = 0 THEN 1 ELSE 2 * Pow2(n - 1)

\* GofileAPI._handle_response(response, retry_count, max_retries): the
\* exception raised or "data", and the sleep made on the way.
GofileHandleResponse(r, retry_count, maxr) ==
    CASE r = "ok" -> [outcome |-> "data", slept |-> <<>>]
      [] r = "rate_limited" ->
            IF retry_count < maxr
            THEN [outcome |-> "RateLimitException", slept |-> <<Pow2(retry_count) * 5>>]
            ELSE [outcome |-> "RateLimitException", slept |-> <<>>]
      [] OTHER -> [outcome |-> "Exception", slept |-> <<>>]

\* BuzzheavierAPI._handle_response(response)
BuzzheavierHandleResponse(r) ==
    CASE r = "ok" -> "data"
      [] r = "rate_limited" -> "RateLimitException"
      [] OTHER -> "BuzzheavierHTTPError"

\* PixeldrainAPI._handle_response(response)
PixeldrainHandleResponse(r) ==
    CASE r = "ok" -> "data"
      [] r = "rate_limited" -> "RateLimitException"
      [] r = "server_error" -> "NetworkException"
      [] OTHER -> "PixeldrainHTTPError"

RequestInit ==
    /\ adapter \in Adapters
    /\ op \in DirectOps(adapter) \cup {RetryRoutine}
    /\ max_retries \in IF op = RetryRoutine THEN 0..MaxRetriesBound ELSE {DefaultMaxRetries}
    /\ attempt = 0
    /\ responses = <<>>
    /\ sleeps = <<>>
    /\ outcome = "pending"
    /\ rqPc = "call"

Finish(result) ==
    /\ outcome' = result
    /\ rqPc' = "done"

\* One iteration of GofileAPI._make_request_with_retry's loop
\* (for attempt in range(max_retries + 1)).
GofileRequestWithRetry ==
    /\ rqPc = "call" /\ adapter = "gofile" /\ op = RetryRoutine
    /\ attempt <= max_retries
    /\ \E r \in ResponseKinds :
        /\ responses' = Append(responses, r)
        /\ CASE r = "conn_error" ->
                    Finish("ConnectionError") /\ UNCHANGED <<attempt, sleeps>>
             [] r = "rate_limited" /\ attempt < max_retries ->
                    /\ sleeps' = Append(sleeps, Pow2(attempt) * BACKOFF_BASE_SECONDS)
                    /\ attempt' = attempt + 1
                    /\ UNCHANGED <<outcome, rqPc>>
             [] r = "rate_limited" /\ attempt >= max_retries ->
                    Finish("RateLimitException") /\ UNCHANGED <<attempt, sleeps>>
             [] OTHER ->
                    /\ Finish(GofileHandleResponse(r, 0, DefaultMaxRetries).outcome)
                    /\ sleeps' = sleeps \o GofileHandleResponse(r, 0, DefaultMaxRetries).slept
                    /\ UNCHANGED attempt
    /\ UNCHANGED <<adapter, op, max_retries, NotRequest>>

\* One iteration of BuzzheavierAPI._make_request_with_retry's loop, with
\* _handle_rate_limit.
BuzzheavierRequestWithRetry ==
    /\ rqPc = "call" /\ adapter = "buzzheavier" /\ op = RetryRoutine
    /\ attempt <= max_retries
    /\ \E r \in ResponseKinds :
        /\ responses' = Append(responses, r)
        /\ CASE r = "conn_error" ->
                    Finish("ConnectionError") /\ UNCHANGED <<attempt, sleeps>>
             [] r = "rate_limited" /\ attempt < max_retries ->
                    /\ sleeps' = Append(sleeps, Pow2(attempt) * BACKOFF_BASE_SECONDS)
                    /\ attempt' = attempt + 1
                    /\ UNCHANGED <<outcome, rqPc>>
             [] r = "rate_limited" /\ attempt >= max_retries ->
                    Finish("RateLimitException") /\ UNCHANGED <<attempt, sleeps>>
             [] OTHER ->
                    Finish(BuzzheavierHandleResponse(r)) /\ UNCHANGED <<attempt, sleeps>>
    /\ UNCHANGED <<adapter, op, max_retries, NotRequest>>

\* One iteration of PixeldrainAPI._make_request_with_retry's loop
\* (for attempt in range(max_retries)).
PixeldrainRequestWithRetry ==
    /\ rqPc = "call" /\ adapter = "pixeldrain" /\ op = RetryRoutine
    /\ attempt < max_retries
    /\ \E r \in ResponseKinds :
        /\ responses' = Append(responses, r)
        /\ LET e == PixeldrainHandleResponse(r) IN
           CASE r = "conn_error" ->
                    Finish("ConnectionError") /\ UNCHANGED <<attempt, sleeps>>
             [] r # "conn_error" /\ e = "RateLimitException" /\ attempt < max_retries - 1 ->
                    /\ sleeps' = Append(sleeps, Pow2(attempt) * 5)
                    /\ attempt' = attempt + 1
                    /\ UNCHANGED <<outcome, rqPc>>
             [] r # "conn_error" /\ e = "NetworkException" /\ attempt < max_retries - 1 ->
                    /\ sleeps' = Append(sleeps, Pow2(attempt) * NetworkBackoffBase)
                    /\ attempt' = attempt + 1
                    /\ UNCHANGED <<outcome, rqPc>>
             [] OTHER ->
                    Finish(e) /\ UNCHANGED <<attempt, sleeps>>
    /\ UNCHANGED <<adapter, op, max_retries, NotRequest>>

\* PixeldrainAPI._make_request_with_retry when range(max_retries) is
\* exhausted without a return or a raise: the function ends, returning None.
PixeldrainLoopEnds ==
    /\ rqPc = "call" /\ adapter = "pixeldrain" /\ op = RetryRoutine
    /\ attempt >= max_retries
    /\ Finish("none")
    /\ UNCHANGED <<adapter, op, max_retries, attempt, responses, sleeps, NotRequest>>

\* GofileAPI.create_folder / get_content / upload_file / update_content:
\* one request on the session, then _handle_response(response).
GofileDirectCall ==
    /\ rqPc = "call" /\ adapter = "gofile" /\ op \in DirectOps("gofile")
    /\ \E r \in ResponseKinds :
        /\ responses' = Append(responses, r)
        /\ IF r = "conn_error"
           THEN Finish("ConnectionError") /\ UNCHANGED sleeps
           ELSE /\ Finish(GofileHandleResponse(r, 0, DefaultMaxRetries).outcome)
                /\ sleeps' = sleeps \o GofileHandleResponse(r, 0, DefaultMaxRetries).slept
    /\ UNCHANGED <<adapter, op, max_retries, attempt, NotRequest>>

\* BuzzheavierAPI.create_folder / get_content / upload_file
BuzzheavierDirectCall ==
    /\ rqPc = "call" /\ adapter = "buzzheavier" /\ op \in DirectOps("buzzheavier")
    /\ \E r \in ResponseKinds :
        /\ responses' = Append(responses, r)
        /\ IF r = "conn_error"
           THEN Finish("ConnectionError")
           ELSE Finish(BuzzheavierHandleResponse(r))
    /\ UNCHANGED <<adapter, op, max_retries, attempt, sleeps, NotRequest>>

\* PixeldrainAPI.upload_file: one PUT, then _handle_response(response)
PixeldrainDirectCall ==
    /\ rqPc = "call" /\ adapter = "pixeldrain" /\ op \in DirectOps("pixeldrain")
    /\ \E r \in ResponseKinds :
        /\ responses' = Append(responses, r)
        /\ IF r = "conn_error"
           THEN Finish("ConnectionError")
           ELSE Finish(PixeldrainHandleResponse(r))
    /\ UNCHANGED <<adapter, op, max_retries, attempt, sleeps, NotRequest>>

RequestNext ==
    \/ GofileRequestWithRetry
    \/ BuzzheavierRequestWithRetry
    \/ PixeldrainRequestWithRetry
    \/ PixeldrainLoopEnds
    \/ GofileDirectCall
    \/ BuzzheavierDirectCall
    \/ PixeldrainDirectCall

InitRequest ==
    RequestInit /\ ParseIdle /\ StallIdle /\ SessionFresh /\ InitIdle /\ SaveIdle /\ UploadIdle /\ StoreIdle /\ LockIdle /\ DropsIdle /\ PairIdle

SpecRequest == InitRequest /\ [][RequestNext]_vars

(***************************************************************************)
(* Claims about the adapters' rate-limit handling.                         *)
(***************************************************************************)
RateLimitedPrefix(n) ==
    /\ Len(responses) >= n
    /\ \A i \in 1..n : responses[i] = "rate_limited"

\* C5: with the default ceiling, each adapter's request-with-retry routine
\* answers three rate-limit responses with three delayed retries, so it sends
\* a fourth request; it returns the data if that one succeeds and fails with
\* the rate-limit error if that one is rate-limited too.
C5_ThreeRetriesThenSuccess ==
    (rqPc = "done" /\ op = RetryRoutine /\ max_retries = DefaultMaxRetries
        /\ RateLimitedPrefix(3)) =>
            /\ Len(sleeps) = 3
            /\ Len(responses) = 4
            /\ (responses[4] = "ok" => outcome = "data")
            /\ (responses[4] = "rate_limited" => outcome = "RateLimitException")

\* C6: a create-folder, get-content, upload or set-visibility call ends with
\* a rate-limit failure only after the ceiling is exceeded: it has retried
\* DefaultMaxRetries times, the delay doubling from the base each time.
C6_DirectCallsBackOff ==
    (rqPc = "done" /\ op # RetryRoutine /\ outcome = "RateLimitException") =>
        /\ Len(responses) = DefaultMaxRetries + 1
        /\ sleeps = [i \in 1..DefaultMaxRetries |-> Pow2(i - 1) * BACKOFF_BASE_SECONDS]

(***************************************************************************)
(*   ProgressTrackingFile and the streamed uploads that read through it    *)
(*   (BuzzheavierAPI.upload_file, PixeldrainAPI.upload_file)               *)
(***************************************************************************)

\* Bound: the clock stops at MaxTime ticks.
MaxTime == 8
\* Bound: the largest file, in chunks.
MaxChunks == 3
\* Bound: the largest upload_stall_timeout, in ticks.
MaxStallTimeout == 3

StreamingHosts == {"buzzheavier", "pixeldrain"}

\* with open(file_path, 'rb') as f: ProgressTrackingFile(f, self.upload_stall_timeout):
\* __init__ sets last_read_time = time.time().  session.put(url, data=..., timeout=None)
\* then reads the body chunk by chunk.
StallInit ==
    /\ upHost \in StreamingHosts
    /\ now = 0
    /\ last_read_time = 0
    /\ timeout_seconds \in 1..MaxStallTimeout
    /\ chunksLeft \in 0..MaxChunks
    /\ upOutcome = [exc |-> "pending", msg |-> ""]
    /\ upPc = "reading"
    /\ lastDataAt = -1
    /\ dataGapMax = 0
    /\ readGapMax = 0

\* Time passes while the upload is in progress.
Tick ==
    /\ upPc \in {"reading", "sending", "waiting"}
    /\ now < MaxTime
    /\ now' = now + 1
    /\ UNCHANGED <<upHost, last_read_time, timeout_seconds, chunksLeft, upOutcome, upPc,
                   lastDataAt, dataGapMax, readGapMax, NotStall>>

\* if elapsed > self.timeout_seconds: raise TimeoutError(...)
StalledStrict(elapsed, limit) == elapsed > limit
StalledAtBoundary(elapsed, limit) == elapsed >= limit
Stalled(elapsed, limit) == StalledStrict(elapsed, limit)

\* What upload_file raises when read() raises TimeoutError: Buzzheavier lets
\* it through, Pixeldrain turns it into NetworkException(str(e)).
StallError(h) ==
    IF h = "pixeldrain"
    THEN [exc |-> "NetworkException", msg |-> "Upload stalled"]
    ELSE [exc |-> "TimeoutError", msg |-> "Upload stalled"]

\* The time stamp as it would be if a read that returns data left it alone.
TimerKept(stamp, t) == stamp

\* if data: self.last_read_time = time.time()
TimerRestarted(stamp, t) == t

AfterData(stamp, t) == TimerRestarted(stamp, t)

\* The HTTP client asks for the next chunk: ProgressTrackingFile.read(size).
ClientRead ==
    /\ upPc = "reading"
    /\ readGapMax' = Max({readGapMax, now - (IF lastDataAt = -1 THEN 0 ELSE lastDataAt)})
    /\ IF Stalled(now - last_read_time, timeout_seconds)
       THEN /\ upOutcome' = StallError(upHost)
            /\ upPc' = "done"
            /\ UNCHANGED <<last_read_time, chunksLeft, lastDataAt, dataGapMax>>
       ELSE IF chunksLeft > 0
            THEN \* data: the time stamp is renewed and the chunk goes to the socket
                 /\ last_read_time' = AfterData(last_read_time, now)
                 /\ chunksLeft' = chunksLeft - 1
                 /\ upPc' = "sending"
                 /\ lastDataAt' = now
                 /\ dataGapMax' = IF lastDataAt = -1 THEN dataGapMax
                                  ELSE Max({dataGapMax, now - lastDataAt})
                 /\ UNCHANGED upOutcome
            ELSE \* b'': end of the body, the time stamp is left as it is
                 /\ upPc' = "waiting"
                 /\ UNCHANGED <<last_read_time, chunksLeft, upOutcome, lastDataAt, dataGapMax>>
    /\ UNCHANGED <<upHost, now, timeout_seconds, NotStall>>

\* The network has taken the chunk; the client comes back for the next one.
\* With timeout=None nothing bounds how long this takes.
SendDone ==
    /\ upPc = "sending"
    /\ upPc' = "reading"
    /\ UNCHANGED <<upHost, now, last_read_time, timeout_seconds, chunksLeft, upOutcome,
                   lastDataAt, dataGapMax, readGapMax, NotStall>>

\* The connection breaks while the body is sent or the response awaited:
\* session.put raises a requests exception.
ConnectionLost ==
    /\ upPc \in {"sending", "waiting"}
    /\ upOutcome' = [exc |-> "ConnectionError", msg |-> "connection"]
    /\ upPc' = "done"
    /\ UNCHANGED <<upHost, now, last_read_time, timeout_seconds, chunksLeft,
                   lastDataAt, dataGapMax, readGapMax, NotStall>>

\* The response arrives: return self._handle_response(response)
UploadResponse ==
    /\ upPc = "waiting"
    /\ \E r \in ResponseKinds \ {"conn_error"} :
        upOutcome' = [exc |-> IF upHost = "pixeldrain"
                              THEN PixeldrainHandleResponse(r)
                              ELSE BuzzheavierHandleResponse(r),
                      msg |-> r]
    /\ upPc' = "done"
    /\ UNCHANGED <<upHost, now, last_read_time, timeout_seconds, chunksLeft,
                   lastDataAt, dataGapMax, readGapMax, NotStall>>

StallNext ==
    \/ Tick
    \/ ClientRead
    \/ SendDone
    \/ ConnectionLost
    \/ UploadResponse

InitStall ==
    StallInit /\ ParseIdle /\ RequestIdle /\ SessionFresh /\ InitIdle /\ SaveIdle /\ UploadIdle /\ StoreIdle /\ LockIdle /\ DropsIdle /\ PairIdle

SpecStall == InitStall /\ [][StallNext]_vars

(***************************************************************************)
(* Claims about stall detection.                                           *)
(***************************************************************************)
FailedWithStall == upPc = "done" /\ upOutcome = StallError(upHost)

\* C10: once the stream has stopped (the chunk last read is still on its way)
\* and the time since that chunk has reached the stall window, the upload has
\* failed with the stall error: it is never still in flight past the window.
C10_StallFailsUpload ==
    (upPc = "sending" => now - last_read_time <= timeout_seconds)

\* C11, as stated: an upload whose reads that returned data were never more
\* than the stall window apart has not failed with the stall error.
C11_DataReadsInWindow ==
    dataGapMax <= timeout_seconds => ~FailedWithStall

\* C11, amended: an upload in which every read() call, the first one and the
\* one that finds the end of the file included, came no more than the stall
\* window after the last read that returned data (or after the opening of
\* the file) has not failed with the stall error, however long it has run.
C11_ReadCallsInWindow ==
    readGapMax <= timeout_seconds => ~FailedWithStall

\* A transfer of several chunks that lasted more than twice the stall window,
\* never paused longer than the window, and ended with the host's answer.
C11_Witness ==
    /\ upPc = "done"
    /\ upOutcome.exc = "data"
    /\ chunksLeft = 0
    /\ dataGapMax > 0
    /\ readGapMax <= timeout_seconds
    /\ lastDataAt > 2 * timeout_seconds

(***************************************************************************)
(* Initialization: initialize_api, the three connect threads,              *)
(* build_folder_structure and the folder cache file.                       *)
(*                                                                         *)
(* Time is counted in hours.  A name is a sequence of characters.          *)
(***************************************************************************)
AgeSlack == 1

CACHE_EXPIRY_HOURS == 24

\* datetime.now() during the session.
DatetimeNow == CACHE_EXPIRY_HOURS + AgeSlack

\* The ages of the cache entries found at start-up: fresh, and around expiry.
Ages == {0} \cup ((CACHE_EXPIRY_HOURS - AgeSlack) .. (CACHE_EXPIRY_HOURS + AgeSlack))

\* The 'timestamp' field: the ISO string of an instant, or a value that
\* datetime.fromisoformat rejects (a missing field reads as '').
Instant(t) == [valid |-> TRUE, at |-> t]
NoInstant == [valid |-> FALSE, at |-> 0]
Timestamps == {Instant(DatetimeNow - a) : a \in Ages} \cup {NoInstant}

RootIds == {"r1", "r2"}

\* The root folder id the host reports when the session connects.
AccountRoot(h) == "r1"

PkgA == <<"a", ".", "b", ".", "c">>
VerA == PkgA \o <<"-", "1">>

\* The children of the root folder on the host.
RootListing(h) ==
    { [id |-> "f1", name |-> PkgA, isDirectory |-> TRUE],
      [id |-> "f2", name |-> VerA, isDirectory |-> TRUE],
      [id |-> "f3", name |-> <<"x", ".", "y", ".", "z">>, isDirectory |-> FALSE],
      [id |-> "f4", name |-> <<"d", "o", "c", "s">>, isDirectory |-> TRUE] }

\* The 'folders' of a cache entry found at start-up.
CachedFolders ==
    { {},
      { [id |-> "f0", name |-> PkgA, type |-> "parent", package |-> PkgA],
        [id |-> "f2", name |-> VerA, type |-> "version", package |-> PkgA] } }

Entries == [timestamp : Timestamps, root_folder_id : RootIds, folders : CachedFolders]
OptEntries == Entries \cup {None}

\* The cache file: absent, not JSON, or a JSON object.  Of a JSON object the
\* model keeps the top-level entry fields (the legacy layout), if any, and
\* the entry under each host's key, if any.
AbsentFile == [kind |-> "absent"]
CorruptFile == [kind |-> "corrupt"]
JsonDoc(top, hosts) == [kind |-> "json", top |-> top, hosts |-> hosts]
NoHostEntries == [h \in HierarchicalHosts |-> None]
EmptyDoc == JsonDoc(None, NoHostEntries)

InitialCacheFiles ==
    {AbsentFile, CorruptFile}
        \cup {JsonDoc(e, NoHostEntries) : e \in Entries}
        \cup {JsonDoc(None, f) : f \in [HierarchicalHosts -> OptEntries]}

\* Exception classes and except clauses.  IOError is OSError; the adapters'
\* own exception classes derive from Exception only.
Catches(handler, exc) == "Exception" \in handler \/ exc \in handler

\* The assignment left out.
DictSetSkipped(d, k, v) == d

\* dict[key] = value on a dictionary kept as a set of [package, id].
DictSet(d, k, v) == {e \in d : e.package # k} \cup {[package |-> k, id |-> v]}

\* The dictionary left as it was.
DictKept(d, items) == d

RECURSIVE DictUpdate(_, _)
DictUpdate(d, items) ==
    IF items = {} THEN d
    ELSE LET e == CHOOSE x \in items : TRUE
         IN DictUpdate(DictSet(d, e.package, e.id), items \ {e})

\* save_folder_cache: the document it starts from, the document it writes,
\* and the file afterwards.
SaveBase(file, readOk) ==
    IF file.kind = "json" /\ readOk THEN file ELSE EmptyDoc

\* The entry written with no folders in it.
SaveMergeEmpty(base, host, root, folders) ==
    [base EXCEPT !.hosts[host] =
        [timestamp |-> Instant(DatetimeNow), root_folder_id |-> root, folders |-> {}]]

SaveMerge(base, host, root, folders) ==
    [base EXCEPT !.hosts[host] =
        [timestamp |-> Instant(DatetimeNow), root_folder_id |-> root, folders |-> folders]]

save_folder_cache(file, host, root, folders, readOk, writeOk) ==
    IF writeOk THEN SaveMerge(SaveBase(file, readOk), host, root, folders) ELSE file

\* load_folder_cache: the value returned and the file afterwards.
IsLegacy(doc) == doc.top # None /\ doc.hosts["gofile"] = None

\* The wrapping with the old fields left at the top level as well.
MigratedInPlace(doc) ==
    JsonDoc(doc.top, [h \in HierarchicalHosts |-> IF h = "gofile" THEN doc.top ELSE None])

Migrated(doc) ==
    JsonDoc(None, [h \in HierarchicalHosts |-> IF h = "gofile" THEN doc.top ELSE None])

load_folder_cache(file, readOk, writeOk) ==
    IF file.kind # "json" \/ ~readOk
    THEN [data |-> None, file |-> file]
    ELSE IF IsLegacy(file)
         THEN [data |-> Migrated(file), file |-> IF writeOk THEN Migrated(file) ELSE file]
         ELSE [data |-> file, file |-> file]

\* The expiry test as it would be with < in place of <=.
WithinExpiryStrict(age) == age < CACHE_EXPIRY_HOURS

\* cache_age <= timedelta(hours=CACHE_EXPIRY_HOURS)
WithinExpiryInclusive(age) == age <= CACHE_EXPIRY_HOURS

WithinExpiry(age) == WithinExpiryInclusive(age)

CacheValid(entry, root) ==
    /\ WithinExpiry(DatetimeNow - entry.timestamp.at)
    /\ entry.root_folder_id = root

\* folder_name.count('.') >= 2 and '-' not in folder_name
IsParentName(name) ==
    /\ Cardinality({i \in DOMAIN name : name[i] = "."}) >= 2
    /\ \A i \in DOMAIN name : name[i] # "-"

\* What api.get_content(root_folder_id) does in the scan: it returns the
\* listing, returns something the scan cannot iterate (TypeError), or raises
\* a connection error (requests' exceptions are OSError) or one of the
\* adapter's own exceptions (HTTP error, rate limit, API error).
ScanOutcomes == {"listing", "TypeError", "OSError", "Exception"}

ScanHandler == {"KeyError", "ValueError", "TypeError"}

InitializeApiHandler == {"RuntimeError", "KeyError", "ValueError", "OSError"}

\* The result of one call: the dictionary, the cache file, where the
\* dictionary came from, and the exception that left the call ("none" when
\* it returned).
build_folder_structure_for_host(h, root, dict, data, file, scan, readOk, writeOk) ==
    LET hasEntry == data # None /\ data.hosts[h] # None
        entry == data.hosts[h]
        cached == {[package |-> f.package, id |-> f.id] :
                       f \in {g \in entry.folders : g.type = "parent"}}
        found == {c \in RootListing(h) : c.isDirectory /\ IsParentName(c.name)}
        scanned == {[package |-> c.name, id |-> c.id] : c \in found}
        cache_folders == {[id |-> c.id, name |-> c.name, type |-> "parent",
                           package |-> c.name] : c \in found}
    IN  IF hasEntry /\ ~entry.timestamp.valid
        THEN [dict |-> dict, file |-> file, source |-> "none", raised |-> "ValueError"]
        ELSE IF hasEntry /\ CacheValid(entry, root)
        THEN [dict |-> DictUpdate(dict, cached), file |-> file,
              source |-> "cache", raised |-> "none"]
        ELSE IF scan = "listing"
        THEN [dict |-> DictUpdate(dict, scanned),
              file |-> save_folder_cache(file, h, root, cache_folders, readOk, writeOk),
              source |-> "scan", raised |-> "none"]
        ELSE [dict |-> dict, file |-> file, source |-> "scan",
              raised |-> IF Catches(ScanHandler, scan) THEN "none" ELSE scan]

\* One connect thread: the credentials are missing from the configuration
\* (ValueError, before the adapter object is made), the host rejects the
\* verification call (adapter exception), the host cannot be reached
\* (OSError), or the account is verified.
ConnectOutcomes == {"connected", "no_credentials", "rejected", "unreachable"}

ConnectRaises(o) ==
    CASE o = "no_credentials" -> "ValueError"
      [] o = "rejected" -> "Exception"
      [] o = "unreachable" -> "OSError"
      [] OTHER -> "none"

ConnectHandler(h) ==
    IF h = "pixeldrain" THEN {"Exception"} ELSE {"RuntimeError", "KeyError", "ValueError"}

BuildPc(h) == IF h = "gofile" THEN "build_gofile" ELSE "build_buzzheavier"
AfterBuildPc(h) == IF h = "gofile" THEN "build_buzzheavier" ELSE "set_ready"

InitializeInit ==
    /\ SessionFresh
    /\ cache_file \in InitialCacheFiles
    /\ connPc = [h \in Hosts |-> "unstarted"]
    /\ source = [h \in HierarchicalHosts |-> "none"]
    /\ initPc = "created"

\* initialize_api up to the start of the three threads.
StartThreads ==
    /\ initPc = "created"
    /\ host_ready' = [h \in Hosts |-> FALSE]
    /\ connPc' = [h \in Hosts |-> "running"]
    /\ initPc' = "connecting"
    /\ UNCHANGED <<api, root_folder_id, is_ready, folder_structure, cache_data,
                   cache_file, source, NotInit>>

\* _initialize_gofile, _initialize_buzzheavier, _initialize_pixeldrain, each
\* with the setattr of its thread.
InitializeHost(h) ==
    /\ initPc = "connecting"
    /\ connPc[h] = "running"
    /\ \E o \in ConnectOutcomes :
        /\ api' = [api EXCEPT ![h] = (o # "no_credentials")]
        /\ root_folder_id' =
               IF h \in HierarchicalHosts /\ o = "connected"
               THEN [root_folder_id EXCEPT ![h] = AccountRoot(h)]
               ELSE root_folder_id
        /\ host_ready' = [host_ready EXCEPT ![h] = (o = "connected")]
        /\ connPc' = [connPc EXCEPT ![h] =
               IF o = "connected" \/ Catches(ConnectHandler(h), ConnectRaises(o))
               THEN "returned" ELSE "died"]
    /\ UNCHANGED <<is_ready, folder_structure, cache_data, cache_file, source,
                   initPc, NotInit>>

\* A wait that ends as soon as one thread has ended.
JoinedAny(pcs) == \E h \in Hosts : pcs[h] \in {"returned", "died"}

\* gofile_thread.join(), buzzheavier_thread.join(), pixeldrain_thread.join()
Joined(pcs) == \A h \in Hosts : pcs[h] \in {"returned", "died"}

\* The joins, then the first statement of build_folder_structure.
BuildLoadCache ==
    /\ initPc = "connecting"
    /\ Joined(connPc)
    /\ \E readOk \in BOOLEAN, writeOk \in BOOLEAN :
        LET r == load_folder_cache(cache_file, readOk, writeOk)
        IN  /\ cache_data' = r.data
            /\ cache_file' = r.file
    /\ initPc' = "build_gofile"
    /\ UNCHANGED <<api, root_folder_id, host_ready, is_ready, folder_structure,
                   connPc, source, NotInit>>

\* build_folder_structure's step for one host.  An exception that leaves
\* build_folder_structure_for_host leaves build_folder_structure too and
\* reaches initialize_api's except clause.
BuildHost(h) ==
    /\ initPc = BuildPc(h)
    /\ IF api[h] /\ root_folder_id[h] # NoneStr
       THEN \E scan \in ScanOutcomes, readOk \in BOOLEAN, writeOk \in BOOLEAN :
            LET r == build_folder_structure_for_host(h, root_folder_id[h],
                         folder_structure[h], cache_data, cache_file,
                         scan, readOk, writeOk)
            IN  /\ folder_structure' = [folder_structure EXCEPT ![h] = r.dict]
                /\ cache_file' = r.file
                /\ source' = [source EXCEPT ![h] = r.source]
                /\ initPc' = IF r.raised = "none" THEN AfterBuildPc(h)
                             ELSE IF Catches(InitializeApiHandler, r.raised)
                                  THEN "done" ELSE "died"
       ELSE /\ initPc' = AfterBuildPc(h)
            /\ UNCHANGED <<folder_structure, cache_file, source>>
    /\ UNCHANGED <<api, root_folder_id, host_ready, is_ready, cache_data, connPc,
                   NotInit>>

\* "Set ready if at least one host connected", and the return.
SetReady ==
    /\ initPc = "set_ready"
    /\ is_ready' = IF \E h \in Hosts : host_ready[h] THEN TRUE ELSE is_ready
    /\ initPc' = "done"
    /\ UNCHANGED <<api, root_folder_id, host_ready, folder_structure, cache_data,
                   cache_file, connPc, source, NotInit>>

InitializeNext ==
    \/ StartThreads
    \/ \E h \in Hosts : InitializeHost(h)
    \/ BuildLoadCache
    \/ \E h \in HierarchicalHosts : BuildHost(h)
    \/ SetReady

InitInitialize ==
    InitializeInit /\ ParseIdle /\ RequestIdle /\ StallIdle /\ SaveIdle /\ UploadIdle /\ StoreIdle /\ LockIdle /\ DropsIdle /\ PairIdle

SpecInit == InitInitialize /\ [][InitializeNext]_vars

(***************************************************************************)
(* Claims about initialization and cache validity.                         *)
(***************************************************************************)

\* The entry under host h's key in the loaded cache document, when there is one.
HasEntry(h) == cache_data # None /\ cache_data.hosts[h] # None
EntryOf(h) == cache_data.hosts[h]
AgeOf(h) == DatetimeNow - EntryOf(h).timestamp.at

C7_ReadyIffConnected ==
    initPc = "done" => (is_ready <=> \E h \in Hosts : host_ready[h])

(***************************************************************************)
(* save_folder_cache, statement by statement.  A call reads the document,  *)
(* sets its host's entry in its local copy and writes the copy back; the   *)
(* function takes no lock, and the cache file lies in the application      *)
(* directory, which every running instance of the application shares.      *)
(* One call per host is followed here, each saving the result of a scan.   *)
(***************************************************************************)
ScannedFolders(h) ==
    {[id |-> c.id, name |-> c.name, type |-> "parent", package |-> c.name] :
        c \in {x \in RootListing(h) : x.isDirectory /\ IsParentName(x.name)}}

SavedEntry(h) ==
    [timestamp |-> Instant(DatetimeNow), root_folder_id |-> AccountRoot(h),
     folders |-> ScannedFolders(h)]

SaveInit ==
    /\ cache_file \in InitialCacheFiles
    /\ savePc = [h \in HierarchicalHosts |-> "called"]
    /\ saveLocal = [h \in HierarchicalHosts |-> None]
    /\ connPc = [h \in Hosts |-> "unstarted"]
    /\ source = [h \in HierarchicalHosts |-> "none"]
    /\ initPc = "off"

\* "Load existing cache or create new structure", "Update host-specific data".
SaveRead(h) ==
    /\ savePc[h] = "called"
    /\ \E readOk \in BOOLEAN :
        saveLocal' = [saveLocal EXCEPT ![h] =
            SaveMerge(SaveBase(cache_file, readOk), h, AccountRoot(h), ScannedFolders(h))]
    /\ savePc' = [savePc EXCEPT ![h] = "merged"]
    /\ UNCHANGED <<cache_file, connPc, source, initPc, NotSave>>

\* "Save to file": the write, or the OSError that is reported and dropped.
SaveWrite(h) ==
    /\ savePc[h] = "merged"
    /\ \E writeOk \in BOOLEAN :
        /\ cache_file' = IF writeOk THEN saveLocal[h] ELSE cache_file
        /\ savePc' = [savePc EXCEPT ![h] = IF writeOk THEN "saved" ELSE "failed"]
    /\ UNCHANGED <<saveLocal, connPc, source, initPc, NotSave>>

SaveNext ==
    \/ \E h \in HierarchicalHosts : SaveRead(h)
    \/ \E h \in HierarchicalHosts : SaveWrite(h)

InitSave ==
    SaveInit /\ SessionFresh /\ ParseIdle /\ RequestIdle /\ StallIdle /\ UploadIdle /\ StoreIdle /\ LockIdle /\ DropsIdle /\ PairIdle

SpecSave == InitSave /\ [][SaveNext]_vars

\* C4: once save_folder_cache has written for both hosts, whatever the order
\* of their read and write steps, the cache file holds both hosts' entries
\* as saved.
C4_BothEntriesKept ==
    (\A h \in HierarchicalHosts : savePc[h] = "saved") =>
        /\ cache_file.kind = "json"
        /\ \A h \in HierarchicalHosts : cache_file.hosts[h] = SavedEntry(h)

(***************************************************************************)
(* upload_file: the checks, the three host threads, the join and the       *)
(* summary.  A thread takes one step per adapter call; what the host       *)
(* answers to a call is chosen freely among the answers the procedure      *)
(* tells apart, and kept in the thread's call log.                         *)
(***************************************************************************)
ApkSuffix == <<".", "a", "p", "k">>

\* The names dropped: one that parses (package a.b.c) and one that does not.
DroppedNames == {PkgA \o <<"-", "1">> \o ApkSuffix, PkgA \o ApkSuffix}

\* What an adapter call raises: one of the adapter's own exceptions (HTTP
\* error, rate limit, API error: subclasses of Exception only) or an OSError
\* (requests' connection errors and timeouts, the stall TimeoutError).
ErrorKinds == {"Exception", "OSError"}

Keep == "keep"

UploadHandler(h) ==
    CASE h = "gofile" -> {"RuntimeError", "KeyError", "OSError"}
      [] h = "buzzheavier" -> {"NetworkException", "RuntimeError", "KeyError", "OSError"}
      [] OTHER -> {"NetworkException", "OSError", "Exception"}

\* An exception reaching _upload_to_<host>'s except clauses: caught, the
\* host is marked failed and None returned; otherwise it leaves the thread's
\* target and ends that thread.
Raise(h, exc, fs) ==
    IF Catches(UploadHandler(h), exc)
    THEN [pc |-> "returned", link |-> NoneStr, status |-> "failed", fs |-> fs]
    ELSE [pc |-> "died", link |-> Keep, status |-> Keep, fs |-> fs]

\* A missing id or listing taken as no reason to stop: the upload comes next.
ReturnNoneSkipped(fs) == [pc |-> "upload", link |-> Keep, status |-> Keep, fs |-> fs]

\* return None
ReturnNone(fs) == [pc |-> "returned", link |-> NoneStr, status |-> Keep, fs |-> fs]
\* The procedure going on to the upload whatever call is due.
GotoUpload(pc, fs) == [pc |-> "upload", link |-> Keep, status |-> Keep, fs |-> fs]

Goto(pc, fs) == [pc |-> pc, link |-> Keep, status |-> Keep, fs |-> fs]

\* dict.get(key)
DictGet(d, k) ==
    IF \E e \in d : e.package = k THEN (CHOOSE e \in d : e.package = k).id ELSE NoneStr

NewParentId == "p1"

\* The answers the procedures tell apart, by the call they answer.
Replies(h, pc) ==
    ErrorKinds \cup
    CASE pc = "create_parent" -> {"id", "no_id"}
      [] pc = "get_parent" ->
            IF h = "gofile" THEN {"has_version", "no_version", "no_children"}
            ELSE {"has_version", "no_version"}
      [] pc = "create_version" -> {"id", "no_id"}
      [] pc = "upload" -> IF h = "gofile" THEN {"ok"} ELSE {"id", "no_id"}
      [] pc = "publish" -> {"ok"}
      [] pc = "get_link" -> {"link", "code", "neither"}
      [] OTHER -> {}

GoodReplies == {"id", "has_version", "no_version", "ok", "link", "code"}

\* The link always put together from the short code, the folder's own link
\* field left unread.
LinkFromCode(h, reply) ==
    CASE h = "gofile" -> "https://gofile.io/d/code"
      [] h = "buzzheavier" -> "https://buzzheavier.com/id"
      [] OTHER -> "https://pixeldrain.com/u/id"

\* The link each host's procedure returns.
LinkFor(h, reply) ==
    CASE h = "gofile" /\ reply = "link" -> "gofile:link"
      [] h = "gofile" /\ reply = "code" -> "https://gofile.io/d/code"
      [] h = "buzzheavier" -> "https://buzzheavier.com/id"
      [] OTHER -> "https://pixeldrain.com/u/id"

Success(h, reply, fs) ==
    [pc |-> "returned", link |-> LinkFor(h, reply), status |-> "success", fs |-> fs]

Failure(fs) == [pc |-> "returned", link |-> NoneStr, status |-> "failed", fs |-> fs]

\* _upload_to_gofile with create_parent_folder, create_version_folder,
\* make_folder_public and get_folder_link, from the adapter call at pc on.
upload_to_gofile(pc, reply, fs, package) ==
    IF reply \in ErrorKinds THEN Raise("gofile", reply, fs)
    ELSE CASE pc = "create_parent" ->
                 IF reply = "id" THEN Goto("get_parent", DictSet(fs, package, NewParentId))
                 ELSE ReturnNone(DictSet(fs, package, NoneStr))
           [] pc = "get_parent" ->
                 IF reply = "has_version" THEN Goto("upload", fs)
                 ELSE IF reply = "no_version" THEN Goto("create_version", fs)
                 ELSE ReturnNone(fs)
           [] pc = "create_version" ->
                 IF reply = "id" THEN Goto("upload", fs) ELSE ReturnNone(fs)
           [] pc = "upload" -> Goto("publish", fs)
           [] pc = "publish" -> Goto("get_link", fs)
           [] OTHER ->
                 IF reply \in {"link", "code"} THEN Success("gofile", reply, fs)
                 ELSE Failure(fs)

\* _upload_to_buzzheavier, from the adapter call at pc on.
upload_to_buzzheavier(pc, reply, fs, package) ==
    IF reply \in ErrorKinds THEN Raise("buzzheavier", reply, fs)
    ELSE CASE pc = "create_parent" ->
                 IF reply = "id" THEN Goto("get_parent", DictSet(fs, package, NewParentId))
                 ELSE ReturnNone(fs)
           [] pc = "get_parent" ->
                 IF reply = "has_version" THEN Goto("upload", fs)
                 ELSE Goto("create_version", fs)
           [] pc = "create_version" ->
                 IF reply = "id" THEN Goto("upload", fs) ELSE ReturnNone(fs)
           [] OTHER ->
                 IF reply = "id" THEN Success("buzzheavier", reply, fs) ELSE Failure(fs)

\* _upload_to_pixeldrain: its one adapter call.
upload_to_pixeldrain(reply) ==
    IF reply \in ErrorKinds THEN Raise("pixeldrain", reply, {})
    ELSE IF reply = "id" THEN Success("pixeldrain", reply, {}) ELSE Failure({})

\* The assignment as it would be with one link variable for the three threads.
StoreLinkShared(links, h, v) == [x \in Hosts |-> v]

\* nonlocal <host>_link = ...
StoreLinkOwn(links, h, v) == [links EXCEPT ![h] = v]

StoreLink(links, h, v) == StoreLinkOwn(links, h, v)

\* The session a finished initialization leaves, by the hosts' connect outcomes.
SessionAfter(o) ==
    /\ api = [h \in Hosts |-> o[h] # "no_credentials"]
    /\ root_folder_id = [h \in HierarchicalHosts |->
                            IF o[h] = "connected" THEN AccountRoot(h) ELSE NoneStr]
    /\ host_ready = [h \in Hosts |-> o[h] = "connected"]
    /\ is_ready = (\E h \in Hosts : o[h] = "connected")
    /\ cache_data = None

KnownParent == {[package |-> PkgA, id |-> "f1"]}

UploadInit ==
    /\ \E o \in [Hosts -> ConnectOutcomes] : SessionAfter(o)
    /\ folder_structure \in [HierarchicalHosts -> {{}, KnownParent}]
    /\ \A h \in HierarchicalHosts : ~host_ready[h] => folder_structure[h] = {}
    /\ file_path \in {f \in [name : DroppedNames, exists : BOOLEAN, isfile : BOOLEAN] :
                         f.isfile => f.exists}
    /\ enabled \in [Hosts -> BOOLEAN]
    /\ last_upload_parsed_info = None
    /\ last_upload_file_path = <<>>
    /\ threadPc = [h \in Hosts |-> "off"]
    /\ callLog = [h \in Hosts |-> <<>>]
    /\ link = [h \in Hosts |-> NoneStr]
    /\ status_emoji = [h \in Hosts |-> "none"]
    /\ success_count = 0
    /\ summary = "none"
    /\ link_entry = [h \in Hosts |-> ""]
    /\ parse_calls = 0
    /\ retry_clicks = [h \in Hosts |-> 0]
    /\ uploadPc = "dropped"

\* The file checks taken as passed whatever is at the path.
FileAcceptedAlways(fp) == TRUE

\* os.path.exists(file_path) and os.path.isfile(file_path)
FileAccepted(fp) == fp.exists /\ fp.isfile

\* upload_file up to the start of the three threads: the file checks, the
\* parse, the record for the retry buttons, the status reset.
UploadStart ==
    /\ uploadPc = "dropped"
    /\ LET info == IF FileAccepted(file_path) THEN parse_apk_filename(file_path.name) ELSE None
       IN  IF info = None
           THEN /\ uploadPc' = "done"
                /\ UNCHANGED <<last_upload_parsed_info, last_upload_file_path, threadPc, status_emoji>>
           ELSE /\ uploadPc' = "running"
                /\ last_upload_file_path' = file_path.name
                /\ last_upload_parsed_info' = info
                /\ status_emoji' = [h \in Hosts |-> "uploading"]
                /\ threadPc' = [h \in Hosts |-> "start"]
    /\ link_entry' = [h \in Hosts |-> ""]
    /\ parse_calls' = IF FileAccepted(file_path) THEN parse_calls + 1 ELSE parse_calls
    /\ UNCHANGED <<file_path, enabled, callLog, link, success_count, summary, retry_clicks,
                   sessionVars, NotUpload>>

\* elif self.api and self.root_folder_id / elif self.pixeldrain_api
Participates(h) ==
    /\ api[h]
    /\ h \in HierarchicalHosts => root_folder_id[h] # NoneStr

\* The adapter call a host's procedure makes first.
FirstCall(h) ==
    IF h = "pixeldrain" THEN "upload"
    ELSE IF DictGet(folder_structure[h], last_upload_parsed_info.package) = NoneStr
         THEN "create_parent" ELSE "get_parent"

\* The host's toggle read as always on.
ToggleIgnored(h) == TRUE

\* self.<host>_enabled.get()
ToggleOn(h) == enabled[h]

HostEnabled(h) == ToggleOn(h)

\* upload_gofile, upload_buzzheavier, upload_pixeldrain up to the first
\* adapter call: the toggle and the connection test.
ThreadEnter(h) ==
    /\ uploadPc = "running"
    /\ threadPc[h] = "start"
    /\ threadPc' = [threadPc EXCEPT ![h] =
           IF HostEnabled(h) /\ Participates(h) THEN FirstCall(h) ELSE "returned"]
    /\ UNCHANGED <<file_path, enabled, last_upload_parsed_info,
                   last_upload_file_path, callLog, link,
                   status_emoji, success_count, summary, link_entry, parse_calls,
                   retry_clicks, uploadPc, sessionVars, NotUpload>>

CallPcs == {"create_parent", "get_parent", "create_version", "upload", "publish", "get_link"}

\* What a step of the host's procedure leaves behind.
Effect(h, reply, r) ==
    /\ callLog' = [callLog EXCEPT ![h] = Append(@, [on |-> threadPc[h], reply |-> reply])]
    /\ threadPc' = [threadPc EXCEPT ![h] = r.pc]
    /\ link' = IF r.link = Keep \/ uploadPc # "running" THEN link
                ELSE StoreLink(link, h, r.link)
    /\ status_emoji' = IF r.status = Keep THEN status_emoji
                       ELSE [status_emoji EXCEPT ![h] = r.status]
    /\ link_entry' = IF r.status = "success" THEN [link_entry EXCEPT ![h] = r.link]
                      ELSE link_entry
    /\ UNCHANGED <<file_path, enabled, last_upload_parsed_info,
                   last_upload_file_path, success_count, summary,
                   parse_calls, retry_clicks, uploadPc,
                   api, root_folder_id, host_ready, is_ready, cache_data, NotUpload>>

GofileCall ==
    /\ threadPc["gofile"] \in CallPcs
    /\ \E reply \in Replies("gofile", threadPc["gofile"]) :
        LET r == upload_to_gofile(threadPc["gofile"], reply, folder_structure["gofile"],
                                  last_upload_parsed_info.package)
        IN  /\ Effect("gofile", reply, r)
            /\ folder_structure' = [folder_structure EXCEPT !["gofile"] = r.fs]

BuzzheavierCall ==
    /\ threadPc["buzzheavier"] \in CallPcs
    /\ \E reply \in Replies("buzzheavier", threadPc["buzzheavier"]) :
        LET r == upload_to_buzzheavier(threadPc["buzzheavier"], reply,
                     folder_structure["buzzheavier"], last_upload_parsed_info.package)
        IN  /\ Effect("buzzheavier", reply, r)
            /\ folder_structure' = [folder_structure EXCEPT !["buzzheavier"] = r.fs]

PixeldrainCall ==
    /\ threadPc["pixeldrain"] \in CallPcs
    /\ \E reply \in Replies("pixeldrain", threadPc["pixeldrain"]) :
        /\ Effect("pixeldrain", reply, upload_to_pixeldrain(reply))
        /\ UNCHANGED folder_structure

\* if success_count >= 2 ... elif success_count == 1 ... else ...
SummaryLevel(n) ==
    IF n >= 2 THEN "SUCCESS" ELSE IF n = 1 THEN "WARNING" ELSE "ERROR"

\* A wait for the Gofile thread alone.
ThreadsJoinedFirst(pcs) == pcs["gofile"] \in {"returned", "died"}

\* gofile_thread.join(), buzzheavier_thread.join(), pixeldrain_thread.join()
ThreadsJoined(pcs) == \A h \in Hosts : pcs[h] \in {"returned", "died"}

\* The three joins and the completion summary.
UploadSummary ==
    /\ uploadPc = "running"
    /\ ThreadsJoined(threadPc)
    /\ success_count' = Cardinality({h \in Hosts : link[h] # NoneStr})
    /\ summary' = SummaryLevel(Cardinality({h \in Hosts : link[h] # NoneStr}))
    /\ uploadPc' = "done"
    /\ UNCHANGED <<file_path, enabled, last_upload_parsed_info,
                   last_upload_file_path, threadPc, callLog, link,
                   status_emoji, link_entry, parse_calls, retry_clicks, sessionVars,
                   NotUpload>>

UploadNext ==
    \/ UploadStart
    \/ \E h \in Hosts : ThreadEnter(h)
    \/ GofileCall
    \/ BuzzheavierCall
    \/ PixeldrainCall
    \/ UploadSummary

InitUpload ==
    UploadInit /\ ParseIdle /\ RequestIdle /\ StallIdle /\ InitIdle /\ SaveIdle /\ StoreIdle /\ LockIdle /\ DropsIdle /\ PairIdle

SpecUpload == InitUpload /\ [][UploadNext]_vars

(***************************************************************************)
(* Claims about the host procedures.                                       *)
(***************************************************************************)
AllRaised(h) ==
    /\ callLog[h] # <<>>
    /\ \A i \in DOMAIN callLog[h] : callLog[h][i].reply \in ErrorKinds

AllGood(h) ==
    /\ callLog[h] # <<>>
    /\ \A i \in DOMAIN callLog[h] : callLog[h][i].reply \in GoodReplies

OwnLinks(h) ==
    CASE h = "gofile" -> {"gofile:link", "https://gofile.io/d/code"}
      [] h = "buzzheavier" -> {"https://buzzheavier.com/id"}
      [] OTHER -> {"https://pixeldrain.com/u/id"}

\* C1: when upload_file has finished and one host's adapter raised on every
\* call made to it, every other enabled and connected host whose own calls
\* were all answered has returned from its procedure, holds its own link, is
\* marked successful and is counted in the summary.
C1_HostIsolation ==
    uploadPc = "done" =>
        \A f \in Hosts : AllRaised(f) =>
            LET others == {h \in Hosts \ {f} : enabled[h] /\ host_ready[h] /\ AllGood(h)}
            IN  /\ \A h \in others :
                     /\ threadPc[h] = "returned"
                     /\ link[h] \in OwnLinks(h)
                     /\ status_emoji[h] = "success"
                /\ success_count >= Cardinality(others)

\* Gofile's thread ended by an exception its procedure does not catch, and
\* the other two hosts delivered their links.
C1_Witness ==
    /\ uploadPc = "done"
    /\ AllRaised("gofile")
    /\ threadPc["gofile"] = "died"
    /\ AllGood("buzzheavier") /\ link["buzzheavier"] \in OwnLinks("buzzheavier")
    /\ AllGood("pixeldrain") /\ link["pixeldrain"] \in OwnLinks("pixeldrain")
    /\ success_count = 2

\* C2: when the parent id found in folder_structure turns out stale (the
\* fetch of the parent's contents fails as the procedure's first call), the
\* procedure has, by the time it ends, recreated the parent folder and
\* fetched the parent's contents a second time.
C2_SelfHealOnStaleParent ==
    \A h \in HierarchicalHosts :
        (/\ threadPc[h] \in {"returned", "died"}
         /\ callLog[h] # <<>>
         /\ callLog[h][1].on = "get_parent"
         /\ callLog[h][1].reply \in ErrorKinds \cup {"no_children"})
        => /\ \E i \in DOMAIN callLog[h] : callLog[h][i].on = "create_parent"
           /\ Cardinality({i \in DOMAIN callLog[h] : callLog[h][i].on = "get_parent"}) = 2

\* C12: the summary reports full success (SUCCESS) iff every enabled host
\* returned a link, partial success (WARNING) iff some but not all enabled
\* hosts did, and failure (ERROR) iff no host returned a link.
C12_SummaryByEnabledHosts ==
    (uploadPc = "done" /\ summary # "none") =>
        LET wanted == {h \in Hosts : enabled[h]}
            got == {h \in Hosts : link[h] # NoneStr}
        IN  /\ summary = "ERROR" <=> got = {}
            /\ summary = "SUCCESS" <=> (got # {} /\ wanted \subseteq got)
            /\ summary = "WARNING" <=> (got # {} /\ ~(wanted \subseteq got))

\* C13: after upload_file has returned, every enabled and connected host is
\* marked success and has a link, or is marked failed; none is left marked
\* as uploading.
C13_TerminalStatus ==
    (uploadPc = "done" /\ summary # "none") =>
        \A h \in Hosts : (enabled[h] /\ host_ready[h]) =>
            \/ status_emoji[h] = "success" /\ link[h] # NoneStr
            \/ status_emoji[h] = "failed"

(***************************************************************************)
(* The retry buttons: retry_gofile, retry_buzzheavier, retry_pixeldrain.   *)
(* A retry is followed from a session in which an upload_file call has     *)
(* returned (or none was made) and no procedure of the host is running.    *)
(***************************************************************************)
MaxRetryClicks == 2

\* self._update_status_emoji(host, pending) as upload_file does it, for all hosts.
MarkPendingAll(status, h) == [x \in Hosts |-> "uploading"]

\* self._update_status_emoji("<host>", pending)
MarkPendingOne(status, h) == [status EXCEPT ![h] = "uploading"]

MarkPending(status, h) == MarkPendingOne(status, h)

ParseableName == PkgA \o <<"-", "1">> \o ApkSuffix

\* What the last upload_file call left for a host: a link and the success
\* mark, the failed mark, or the pending mark when the host took no part.
PreviousResults(h) ==
    IF Participates(h)
    THEN {[status |-> "success", entry |-> LinkFor(h, "link")],
          [status |-> "failed", entry |-> ""]}
    ELSE {[status |-> "uploading", entry |-> ""]}

RetryInit ==
    /\ \E o \in [Hosts -> {"connected", "no_credentials"}] : SessionAfter(o)
    /\ folder_structure \in [HierarchicalHosts -> {{}, KnownParent}]
    /\ \A h \in HierarchicalHosts : ~host_ready[h] => folder_structure[h] = {}
    /\ enabled = [h \in Hosts |-> TRUE]
    /\ \/ /\ last_upload_parsed_info = None
          /\ last_upload_file_path = <<>>
          /\ file_path = [name |-> PkgA \o ApkSuffix, exists |-> TRUE, isfile |-> TRUE]
          /\ threadPc = [h \in Hosts |-> "off"]
          /\ status_emoji = [h \in Hosts |-> "none"]
          /\ link_entry = [h \in Hosts |-> ""]
       \/ /\ last_upload_parsed_info = parse_apk_filename(ParseableName)
          /\ last_upload_file_path = ParseableName
          /\ file_path = [name |-> ParseableName, exists |-> TRUE, isfile |-> TRUE]
          /\ threadPc = [h \in Hosts |-> "returned"]
          /\ \E res \in [Hosts -> [status : {"success", "failed", "uploading"},
                                   entry : {""} \cup {LinkFor(h, "link") : h \in Hosts}]] :
                /\ \A h \in Hosts : res[h] \in PreviousResults(h)
                /\ status_emoji = [h \in Hosts |-> res[h].status]
                /\ link_entry = [h \in Hosts |-> res[h].entry]
    /\ callLog = [h \in Hosts |-> <<>>]
    /\ link = [h \in Hosts |-> NoneStr]
    /\ success_count = 0
    /\ summary = "none"
    /\ parse_calls = 1
    /\ retry_clicks = [h \in Hosts |-> 0]
    /\ uploadPc = "done"

\* retry_<host>, up to the first adapter call of the retry thread.
Retry(h) ==
    /\ uploadPc = "done"
    /\ threadPc[h] \notin CallPcs
    /\ retry_clicks["gofile"] + retry_clicks["buzzheavier"] + retry_clicks["pixeldrain"]
           < MaxRetryClicks
    /\ retry_clicks' = [retry_clicks EXCEPT ![h] = @ + 1]
    /\ IF last_upload_parsed_info = None \/ ~Participates(h)
       THEN UNCHANGED <<link_entry, status_emoji, threadPc>>
       ELSE /\ link_entry' = [link_entry EXCEPT ![h] = ""]
            /\ status_emoji' = MarkPending(status_emoji, h)
            /\ threadPc' = [threadPc EXCEPT ![h] = FirstCall(h)]
    /\ UNCHANGED <<file_path, enabled, last_upload_parsed_info,
                   last_upload_file_path, callLog, link,
                   success_count, summary, parse_calls, uploadPc, sessionVars, NotUpload>>

RetryNext ==
    \/ \E h \in Hosts : Retry(h)
    \/ GofileCall
    \/ BuzzheavierCall
    \/ PixeldrainCall

InitRetry ==
    RetryInit /\ ParseIdle /\ RequestIdle /\ StallIdle /\ InitIdle /\ SaveIdle /\ StoreIdle /\ LockIdle /\ DropsIdle /\ PairIdle

SpecRetry == InitRetry /\ [][RetryNext]_vars

\* What a step changes for host g: its call log, its link entry, its status.
Touched(g) ==
    \/ callLog'[g] # callLog[g]
    \/ link_entry'[g] # link_entry[g]
    \/ status_emoji'[g] # status_emoji[g]

\* C14: no step of a retry parses a name or replaces the retained identity;
\* a host for which no retry was requested gets no adapter call and keeps
\* its link and its status; and a step touches one host at most.
C14_RetryFrame ==
    [][/\ parse_calls' = parse_calls
       /\ last_upload_parsed_info' = last_upload_parsed_info
       /\ \A g \in Hosts : retry_clicks'[g] = 0 => ~Touched(g)
       /\ \A g \in Hosts : \A k \in Hosts \ {g} : ~(Touched(g) /\ Touched(k))]_vars

\* A retry of Gofile has run to its link while Buzzheavier, which had
\* failed, was left as it was.
C14_Witness ==
    /\ retry_clicks["gofile"] = 1
    /\ threadPc["gofile"] = "returned"
    /\ status_emoji["gofile"] = "success"
    /\ link_entry["gofile"] \in OwnLinks("gofile")
    /\ status_emoji["buzzheavier"] = "failed"
    /\ callLog["buzzheavier"] = <<>>
    /\ parse_calls = 1

\* C15: in upload_file a host whose toggle is off receives no adapter call
\* and its result is no link.
C15_DisabledHostSkipped ==
    \A h \in Hosts : ~enabled[h] => (callLog[h] = <<>> /\ link[h] = NoneStr)

\* upload_file has returned with Gofile switched off although connected,
\* while Buzzheavier was called and gave its link.
C15_Witness ==
    /\ uploadPc = "done"
    /\ summary # "none"
    /\ ~enabled["gofile"]
    /\ Participates("gofile")
    /\ callLog["buzzheavier"] # <<>>
    /\ link["buzzheavier"] \in OwnLinks("buzzheavier")

\* The calls of host h's procedure made on stage pc, by their place in the log.
CallsOn(h, stage) == {i \in 1..Len(callLog[h]) : callLog[h][i].on = stage}

\* C16: once a hierarchical host's procedure has ended, every call that
\* asked for the version folder to be made public, whatever it answered, was
\* followed by the request for the link.
C16_PublishFailureTolerated ==
    \A h \in HierarchicalHosts :
        threadPc[h] \in {"returned", "died"} =>
            \A i \in CallsOn(h, "publish") : \E j \in CallsOn(h, "get_link") : i < j

\* The place of each call in a host's procedure.
StageRank(stage) ==
    CASE stage = "create_parent" -> 1
      [] stage = "get_parent" -> 2
      [] stage = "create_version" -> 3
      [] stage = "upload" -> 4
      [] stage = "publish" -> 5
      [] OTHER -> 6

\* C17: in each host's procedure the calls come in the order parent
\* resolution, version-folder resolution, upload, publish and link fetch,
\* and a call whose step failed is the last one the procedure makes.
C17_StepsInOrder ==
    \A h \in Hosts : \A i \in 1..(Len(callLog[h]) - 1) :
        /\ callLog[h][i].reply \in GoodReplies
        /\ StageRank(callLog[h][i].on) < StageRank(callLog[h][i + 1].on)

\* Gofile's procedure has gone through all its steps to the link while
\* Buzzheavier's stopped at a version folder that could not be created.
C17_Witness ==
    /\ uploadPc = "done"
    /\ Len(callLog["gofile"]) = 6
    /\ status_emoji["gofile"] = "success"
    /\ Len(callLog["buzzheavier"]) = 2
    /\ callLog["buzzheavier"][2] = [on |-> "create_version", reply |-> "no_id"]
    /\ threadPc["buzzheavier"] = "returned"

(***************************************************************************)
(* Sessions over one cache file: the application is started, builds its    *)
(* folder structures (build_folder_structure: the load, then one call of   *)
(* build_folder_structure_for_host per host) and is started again later    *)
(* with the file as the earlier session left it.  Both hierarchical hosts  *)
(* are connected in every session, and a later session starts within the   *)
(* hour of the earlier one.                                                *)
(***************************************************************************)
MaxSessions == 2

\* The entries in the cache file before the first session: written just now
\* or expired, for the account's root folder.
SessionEntries ==
    [timestamp : {Instant(DatetimeNow), Instant(0)},
     root_folder_id : {AccountRoot("gofile")},
     folders : CachedFolders]

SessionCacheFiles ==
    {AbsentFile, CorruptFile}
        \cup {JsonDoc(e, NoHostEntries) : e \in SessionEntries}
        \cup {JsonDoc(None, f) : f \in [HierarchicalHosts -> SessionEntries \cup {None}]}

\* __init__ and the three connect threads, all connected.
SessionStart ==
    /\ api = [h \in Hosts |-> TRUE]
    /\ root_folder_id = [h \in HierarchicalHosts |-> AccountRoot(h)]
    /\ host_ready = [h \in Hosts |-> TRUE]
    /\ is_ready = FALSE
    /\ folder_structure = [h \in HierarchicalHosts |-> {}]
    /\ cache_data = None
    /\ connPc = [h \in Hosts |-> "returned"]
    /\ source = [h \in HierarchicalHosts |-> "none"]
    /\ initPc = "connecting"

SessionsInit ==
    /\ SessionStart
    /\ cache_file \in SessionCacheFiles
    /\ session = 1
    /\ loadLog = <<>>
    /\ lastSave = None
    /\ roundTrip = None
    /\ scanBuilt = [h \in HierarchicalHosts |-> None]

\* self.cache_data = self.load_folder_cache()
SessionLoad ==
    /\ initPc = "connecting"
    /\ \E readOk \in (IF cache_file.kind = "json" THEN BOOLEAN ELSE {TRUE}) :
       \E writeOk \in (IF cache_file.kind = "json" /\ readOk /\ IsLegacy(cache_file)
                       THEN BOOLEAN ELSE {TRUE}) :
        LET r == load_folder_cache(cache_file, readOk, writeOk)
        IN  /\ cache_data' = r.data
            /\ cache_file' = r.file
            /\ loadLog' = Append(loadLog, [before |-> cache_file, data |-> r.data,
                                           after |-> r.file, read |-> readOk,
                                           wrote |-> writeOk])
            /\ roundTrip' = IF lastSave = None THEN None
                            ELSE [save |-> lastSave, data |-> r.data, read |-> readOk]
    /\ lastSave' = None
    /\ initPc' = "build_gofile"
    /\ UNCHANGED <<api, root_folder_id, host_ready, is_ready, folder_structure,
                   connPc, source, session, scanBuilt, NotStore>>

\* build_folder_structure's call of build_folder_structure_for_host for one host.
SessionBuild(h) ==
    /\ initPc = BuildPc(h)
    /\ \E scan \in ScanOutcomes :
       \E readOk \in (IF scan = "listing" /\ cache_file.kind = "json" THEN BOOLEAN ELSE {TRUE}) :
       \E writeOk \in (IF scan = "listing" THEN BOOLEAN ELSE {TRUE}) :
        LET r == build_folder_structure_for_host(h, root_folder_id[h],
                     folder_structure[h], cache_data, cache_file, scan, readOk, writeOk)
            saves == r.source = "scan" /\ scan = "listing"
        IN  /\ folder_structure' = [folder_structure EXCEPT ![h] = r.dict]
            /\ cache_file' = r.file
            /\ source' = [source EXCEPT ![h] = r.source]
            /\ initPc' = IF r.raised = "none" THEN AfterBuildPc(h)
                         ELSE IF Catches(InitializeApiHandler, r.raised)
                              THEN "done" ELSE "died"
            /\ lastSave' = IF saves
                           THEN [host |-> h, root |-> root_folder_id[h],
                                 folders |-> ScannedFolders(h),
                                 stored |-> writeOk]
                           ELSE lastSave
            /\ scanBuilt' = IF saves /\ writeOk
                            THEN [scanBuilt EXCEPT ![h] =
                                     [dict |-> r.dict, entry |-> r.file.hosts[h]]]
                            ELSE scanBuilt
    /\ UNCHANGED <<api, root_folder_id, host_ready, is_ready, cache_data, connPc,
                   session, loadLog, roundTrip, NotStore>>

\* The application is closed and started again.
NextSession ==
    /\ initPc \in {"done", "died"}
    /\ session < MaxSessions
    /\ session' = session + 1
    /\ is_ready' = FALSE
    /\ folder_structure' = [h \in HierarchicalHosts |-> {}]
    /\ cache_data' = None
    /\ source' = [h \in HierarchicalHosts |-> "none"]
    /\ initPc' = "connecting"
    /\ UNCHANGED <<api, root_folder_id, host_ready, connPc, cache_file, loadLog,
                   lastSave, roundTrip, scanBuilt, NotStore>>

SessionsNext ==
    \/ SessionLoad
    \/ \E h \in HierarchicalHosts : SessionBuild(h)
    \/ SetReady
    \/ NextSession

InitSessions ==
    SessionsInit /\ ParseIdle /\ RequestIdle /\ StallIdle /\ SaveIdle /\ UploadIdle /\ LockIdle /\ DropsIdle /\ PairIdle

SpecSessions == InitSessions /\ [][SessionsNext]_vars

\* C18: when a later session builds a host's dictionary from the cache
\* entry that a live scan stored, the dictionary is the one that scan built:
\* every package resolves to the same parent folder id from either source.
C18_CacheEqualsScan ==
    \A h \in HierarchicalHosts :
        (/\ source[h] = "cache"
         /\ scanBuilt[h] # None
         /\ cache_data.hosts[h] = scanBuilt[h].entry)
        => folder_structure[h] = scanBuilt[h].dict

\* The second session has taken Gofile's dictionary, package a.b.c included,
\* from the entry the first session's scan stored.
C18_Witness ==
    /\ session = 2
    /\ source["gofile"] = "cache"
    /\ scanBuilt["gofile"] # None
    /\ cache_data.hosts["gofile"] = scanBuilt["gofile"].entry
    /\ DictGet(folder_structure["gofile"], PkgA) = "f1"
    /\ loadLog[1].data = None

\* C19: when save_folder_cache has written a host's entry and the next
\* load_folder_cache call reads the file, the document returned holds under
\* that host's key an entry with the root folder id and the folders saved,
\* and the entry passes the validity check for that root folder id.
C19_SaveThenLoad ==
    (roundTrip # None /\ roundTrip.save.stored /\ roundTrip.read) =>
        LET s == roundTrip.save
            d == roundTrip.data
        IN  /\ d # None
            /\ d.hosts[s.host] # None
            /\ d.hosts[s.host].root_folder_id = s.root
            /\ d.hosts[s.host].folders = s.folders
            /\ d.hosts[s.host].timestamp.valid
            /\ CacheValid(d.hosts[s.host], s.root)

\* A cache document in the legacy layout: the entry's fields at the top
\* level and no entry under any host's key.
LegacyLoaded(i) ==
    /\ loadLog[i].before.kind = "json"
    /\ loadLog[i].before.top # None
    /\ loadLog[i].before.hosts = NoHostEntries
    /\ loadLog[i].read

\* The document of load i wrapped under Gofile's key.
Wrapped(i) ==
    JsonDoc(None, [h \in HierarchicalHosts |->
                      IF h = "gofile" THEN loadLog[i].before.top ELSE None])

\* Load i + 1 read the file as load i left it.
LoadedAgain(i) ==
    /\ i < Len(loadLog)
    /\ loadLog[i + 1].before = loadLog[i].after
    /\ loadLog[i + 1].read

SaveCalled == lastSave' # None /\ lastSave' # lastSave

\* C21: a save_folder_cache call for one host leaves every other host's
\* entry that the file held before the call in the file, unchanged.
C21_OtherEntriesKept ==
    [][SaveCalled =>
          \A g \in HierarchicalHosts \ {lastSave'.host} :
              (cache_file.kind = "json" /\ cache_file.hosts[g] # None) =>
                  /\ cache_file'.kind = "json"
                  /\ cache_file'.hosts[g] = cache_file.hosts[g]]_vars

\* Load i found no file, content that is not JSON, or could not read the file.
LoadFailed(i) == loadLog[i].before.kind # "json" \/ ~loadLog[i].read

\* C22: a load_folder_cache call that finds no file, unparsable content or
\* an I/O error returns None, and by the end of that session's
\* build_folder_structure every connected hierarchical host has issued its
\* live scan.
C22_LoadFailsSoft ==
    \A i \in 1..Len(loadLog) : LoadFailed(i) =>
        /\ loadLog[i].data = None
        /\ (i = session /\ initPc \in {"done", "died"}) =>
              \A h \in HierarchicalHosts :
                  (api[h] /\ root_folder_id[h] # NoneStr) => source[h] = "scan"

\* C23: when a connected host's cache entry has a timestamp that is missing
\* or not an ISO-8601 string, and no other host's scan has been issued that
\* could have failed, initialize_api returns with that host's live scan
\* issued and with the ready flag set.
C23_BadTimestampNotFatal ==
    \A h \in HierarchicalHosts :
        (/\ initPc \in {"done", "died"}
         /\ HasEntry(h)
         /\ ~EntryOf(h).timestamp.valid
         /\ host_ready[h]
         /\ \A g \in HierarchicalHosts \ {h} : source[g] # "scan")
        => /\ initPc = "done"
           /\ source[h] = "scan"
           /\ is_ready

\* Host h's cache entry is valid for the session: at most 24 hours old and
\* for the session's root folder.
ValidEntry(h) ==
    /\ HasEntry(h)
    /\ EntryOf(h).timestamp.valid
    /\ AgeOf(h) <= CACHE_EXPIRY_HOURS
    /\ EntryOf(h).root_folder_id = root_folder_id[h]

\* C24: the build of a connected host that has a valid cache entry issues
\* no scan, leaves the cache file as it is, and leaves in the host's
\* dictionary exactly the package -> id pairs of the entry's parent folders.
C24_ValidCacheUsedUntouched ==
    [][\A h \in HierarchicalHosts :
          (/\ initPc = BuildPc(h)
           /\ initPc' # initPc
           /\ api[h]
           /\ root_folder_id[h] # NoneStr
           /\ ValidEntry(h))
          => /\ source'[h] = "cache"
             /\ cache_file' = cache_file
             /\ folder_structure'[h] =
                    {[package |-> f.package, id |-> f.id] :
                        f \in {g \in EntryOf(h).folders : g.type = "parent"}}]_vars

\* Both hosts' dictionaries came from valid entries, the version folder of
\* the entry left out, and the file is still the document that was loaded.
C24_Witness ==
    /\ initPc = "done"
    /\ \A h \in HierarchicalHosts :
          /\ source[h] = "cache"
          /\ ValidEntry(h)
          /\ folder_structure[h] = {[package |-> PkgA, id |-> "f0"]}
    /\ cache_file = cache_data

\* The children of host h's root that are folders with at least two '.'
\* and no '-' in the name, as name -> id pairs.
ParentPairs(h) ==
    {[package |-> c.name, id |-> c.id] :
        c \in {x \in RootListing(h) :
                 /\ x.isDirectory
                 /\ Cardinality({i \in DOMAIN x.name : x.name[i] = "."}) >= 2
                 /\ \A i \in DOMAIN x.name : x.name[i] # "-"}}

\* C25: once build_folder_structure is past Gofile, connected and without a
\* valid cache entry, Gofile's live scan has been issued and its dictionary
\* holds no pair but those of the root's parent-named child folders.
C25_NoValidEntryScans ==
    (/\ initPc \in {"build_buzzheavier", "set_ready", "done", "died"}
     /\ api["gofile"]
     /\ root_folder_id["gofile"] # NoneStr
     /\ ~ValidEntry("gofile"))
    => /\ source["gofile"] = "scan"
       /\ folder_structure["gofile"] \subseteq ParentPairs("gofile")

\* The places in host h's call log where a parent folder was created.
Created(h) ==
    {i \in CallsOn(h, "create_parent") : callLog[h][i].reply = "id"}

\* C26: once a host's procedure has created the package's parent folder,
\* the host's dictionary maps the package to the new id, and no later call
\* of that host in the session creates a parent folder again.
C26_ParentRecordedOnce ==
    \A h \in HierarchicalHosts : \A i \in Created(h) :
        /\ DictGet(folder_structure[h], last_upload_parsed_info.package) = NewParentId
        /\ \A j \in CallsOn(h, "create_parent") : j <= i

\* Buzzheavier's procedure ran twice: the first run created the parent
\* folder, the second found it and went straight to its contents.
C26_Witness ==
    /\ retry_clicks["buzzheavier"] = 2
    /\ threadPc["buzzheavier"] = "returned"
    /\ 1 \in Created("buzzheavier")
    /\ Cardinality(CallsOn("buzzheavier", "create_parent")) = 1
    /\ Cardinality(CallsOn("buzzheavier", "get_parent")) = 2
    /\ status_emoji["buzzheavier"] = "success"

InitThread == "init"
ReaderThread == "reader"

Access(flag, kind, thread) ==
    [flag |-> flag, kind |-> kind, locked |-> (ready_lock = thread)]

ReadyInit ==
    /\ SessionFresh
    /\ cache_file = AbsentFile
    /\ connPc = [h \in Hosts |-> "unstarted"]
    /\ source = [h \in HierarchicalHosts |-> "none"]
    /\ initPc = "created"
    /\ ready_lock = "free"
    /\ accesses = {}
    /\ netUnderLock = FALSE
    /\ readerPc = "idle"

\* self._gofile_ready = False ... and the start of the three threads.
ResetFlags ==
    /\ initPc = "created"
    /\ host_ready' = [h \in Hosts |-> FALSE]
    /\ accesses' = accesses \cup {Access(h, "write", InitThread) : h \in Hosts}
    /\ connPc' = [h \in Hosts |-> "running"]
    /\ initPc' = "connecting"
    /\ UNCHANGED <<api, root_folder_id, is_ready, folder_structure, cache_data,
                   cache_file, source, ready_lock, netUnderLock, readerPc, NotLock>>

\* _initialize_<host>: the adapter is made and the account verified over
\* the network; the value returned waits for the setattr.
VerifyHost(h) ==
    /\ initPc = "connecting"
    /\ connPc[h] = "running"
    /\ \E o \in ConnectOutcomes :
        /\ api' = [api EXCEPT ![h] = (o # "no_credentials")]
        /\ root_folder_id' =
               IF h \in HierarchicalHosts /\ o = "connected"
               THEN [root_folder_id EXCEPT ![h] = AccountRoot(h)]
               ELSE root_folder_id
        /\ connPc' = [connPc EXCEPT ![h] =
               IF o = "connected" THEN "returned_true"
               ELSE IF Catches(ConnectHandler(h), ConnectRaises(o))
                    THEN "returned_false" ELSE "died"]
    /\ netUnderLock' = (netUnderLock \/ ready_lock = h)
    /\ UNCHANGED <<host_ready, is_ready, folder_structure, cache_data, cache_file,
                   source, initPc, ready_lock, accesses, readerPc, NotLock>>

\* setattr(self, '_<host>_ready', ...) in the host's thread.
SetHostFlag(h) ==
    /\ connPc[h] \in {"returned_true", "returned_false"}
    /\ host_ready' = [host_ready EXCEPT ![h] = (connPc[h] = "returned_true")]
    /\ accesses' = accesses \cup {Access(h, "write", h)}
    /\ connPc' = [connPc EXCEPT ![h] = "returned"]
    /\ UNCHANGED <<api, root_folder_id, is_ready, folder_structure, cache_data,
                   cache_file, source, initPc, ready_lock, netUnderLock, readerPc,
                   NotLock>>

\* The joins and build_folder_structure with its scans over the network: it
\* returns, or an exception leaves it for initialize_api's except clause or
\* past it.
BuildUnderWay ==
    /\ initPc = "connecting"
    /\ \A h \in Hosts : connPc[h] \in {"returned", "died"}
    /\ \E raised \in {"none", "OSError", "Exception"} :
        initPc' = IF raised = "none" THEN "read_flags"
                  ELSE IF Catches(InitializeApiHandler, raised) THEN "done" ELSE "died"
    /\ netUnderLock' = (netUnderLock \/ ready_lock = InitThread)
    /\ UNCHANGED <<sessionVars, cache_file, connPc, source, ready_lock, accesses,
                   readerPc, NotLock>>

\* if self._gofile_ready or self._buzzheavier_ready or self._pixeldrain_ready
ReadHostFlags ==
    /\ initPc = "read_flags"
    /\ accesses' = accesses \cup {Access(h, "read", InitThread) : h \in Hosts}
    /\ initPc' = IF \E h \in Hosts : host_ready[h] THEN "setter" ELSE "done"
    /\ UNCHANGED <<sessionVars, cache_file, connPc, source, ready_lock, netUnderLock,
                   readerPc, NotLock>>

\* self.is_ready = True: the setter takes the lock ...
SetterAcquire ==
    /\ initPc = "setter"
    /\ ready_lock = "free"
    /\ ready_lock' = InitThread
    /\ initPc' = "setter_locked"
    /\ UNCHANGED <<sessionVars, cache_file, connPc, source, accesses, netUnderLock,
                   readerPc, NotLock>>

\* ... writes _is_ready and leaves the with block.
SetterWrite ==
    /\ initPc = "setter_locked"
    /\ is_ready' = TRUE
    /\ accesses' = accesses \cup {Access("is_ready", "write", InitThread)}
    /\ ready_lock' = "free"
    /\ initPc' = "done"
    /\ UNCHANGED <<api, root_folder_id, host_ready, folder_structure, cache_data,
                   cache_file, connPc, source, netUnderLock, readerPc, NotLock>>

\* The is_ready getter, called by the front end: it takes the lock ...
GetterAcquire ==
    /\ readerPc = "idle"
    /\ ready_lock = "free"
    /\ ready_lock' = ReaderThread
    /\ readerPc' = "locked"
    /\ UNCHANGED <<sessionVars, initVars, accesses, netUnderLock, NotLock>>

\* ... returns _is_ready and leaves the with block.
GetterRead ==
    /\ readerPc = "locked"
    /\ accesses' = accesses \cup {Access("is_ready", "read", ReaderThread)}
    /\ ready_lock' = "free"
    /\ readerPc' = "idle"
    /\ UNCHANGED <<sessionVars, initVars, netUnderLock, NotLock>>

ReadyNext ==
    \/ ResetFlags
    \/ \E h \in Hosts : VerifyHost(h)
    \/ \E h \in Hosts : SetHostFlag(h)
    \/ BuildUnderWay
    \/ ReadHostFlags
    \/ SetterAcquire
    \/ SetterWrite
    \/ GetterAcquire
    \/ GetterRead

InitReady ==
    ReadyInit /\ ParseIdle /\ RequestIdle /\ StallIdle /\ SaveIdle /\ UploadIdle /\ StoreIdle /\ DropsIdle /\ PairIdle

SpecReady == InitReady /\ [][ReadyNext]_vars

\* C28: every read and every write of the overall ready flag and of the
\* three per-host flags was made by a thread holding _ready_lock, and no
\* network call was made by a thread holding it.
C28_FlagsUnderLock ==
    /\ \A a \in accesses : a.locked
    /\ ~netUnderLock

\* C29: build_folder_structure has started only when each of the three
\* connect threads has ended, by returning or by an exception.
C29_BuildAfterAllJoined ==
    initPc \notin {"created", "connecting"} =>
        \A h \in Hosts : connPc[h] \in {"returned", "died"}

\* build_folder_structure has started after Gofile connected, Buzzheavier's
\* thread ended by an exception and Pixeldrain's returned without a
\* connection.
C29_Witness ==
    /\ initPc = "build_gofile"
    /\ connPc["gofile"] = "returned"
    /\ host_ready["gofile"]
    /\ connPc["buzzheavier"] = "died"
    /\ connPc["pixeldrain"] = "returned"
    /\ ~host_ready["pixeldrain"]

\* C30: when the summary of a file has been written, each host's upload
\* thread has ended (with a link, without one, or skipped), and the
\* summary's count and level are those of the links the threads left.
C30_SummaryAfterThreads ==
    summary # "none" =>
        /\ \A h \in Hosts : threadPc[h] \in {"returned", "died"}
        /\ success_count = Cardinality({h \in Hosts : link[h] # NoneStr})
        /\ summary = "SUCCESS" <=> success_count >= 2
        /\ summary = "WARNING" <=> success_count = 1
        /\ summary = "ERROR" <=> success_count = 0

\* A summary written after one thread was skipped, one ended by an exception
\* and one returned a link.
C30_Witness ==
    /\ summary = "WARNING"
    /\ \E h \in Hosts : ~enabled[h] /\ callLog[h] = <<>> /\ threadPc[h] = "returned"
    /\ \E h \in Hosts : threadPc[h] = "died"
    /\ \E h \in Hosts : link[h] # NoneStr /\ threadPc[h] = "returned"

\* C31: upload_file returns before the host threads, and so without an
\* adapter call, exactly when the path is missing, is not a regular file or
\* carries a name that does not parse; in every other case the three host
\* threads are started.
C31_OnlyFileAndParseStop ==
    [][(uploadPc = "dropped" /\ uploadPc' # "dropped") =>
          IF ~file_path.exists \/ ~file_path.isfile \/ file_path.name # ParseableName
          THEN /\ uploadPc' = "done"
               /\ \A h \in Hosts : threadPc'[h] = "off" /\ callLog'[h] = <<>>
          ELSE /\ uploadPc' = "running"
               /\ \A h \in Hosts : threadPc'[h] = "start"]_vars

\* upload_file has returned for a path that exists but is no regular file:
\* no name was parsed and no host was called.
C31_Witness ==
    /\ uploadPc = "done"
    /\ file_path.exists
    /\ ~file_path.isfile
    /\ file_path.name = ParseableName
    /\ parse_calls = 0
    /\ \A h \in Hosts : threadPc[h] = "off" /\ callLog[h] = <<>>

\* The last adapter call of host h's procedure, once it has made one.
LastCall(h) == callLog[h][Len(callLog[h])]

\* C32: when a host's procedure has returned after the call that yields its
\* link data, the link is the one built from that answer: for Gofile the
\* folder's own link, else the URL of the returned code, else none; for
\* Buzzheavier and Pixeldrain the URL of the returned file id, else none;
\* and a host left without a link is marked failed.
C32_LinkFromHostData ==
    \A h \in Hosts :
        (threadPc[h] = "returned" /\ callLog[h] # <<>>) =>
            /\ (h = "gofile" /\ LastCall(h).on = "get_link") =>
                  /\ LastCall(h).reply = "link" =>
                        (link[h] = "gofile:link" /\ status_emoji[h] = "success")
                  /\ LastCall(h).reply = "code" =>
                        (link[h] = "https://gofile.io/d/code" /\ status_emoji[h] = "success")
                  /\ LastCall(h).reply = "neither" =>
                        (link[h] = NoneStr /\ status_emoji[h] = "failed")
            /\ (h # "gofile" /\ LastCall(h).on = "upload") =>
                  /\ LastCall(h).reply = "id" =>
                        /\ link[h] = (IF h = "buzzheavier" THEN "https://buzzheavier.com/id"
                                      ELSE "https://pixeldrain.com/u/id")
                        /\ status_emoji[h] = "success"
                  /\ LastCall(h).reply = "no_id" =>
                        (link[h] = NoneStr /\ status_emoji[h] = "failed")

\* Gofile returned the folder's own link, Buzzheavier's upload answered
\* without a file id, Pixeldrain's with one.
C32_Witness ==
    /\ \A h \in Hosts : threadPc[h] = "returned" /\ callLog[h] # <<>>
    /\ LastCall("gofile").reply = "link"
    /\ link["gofile"] = "gofile:link"
    /\ LastCall("buzzheavier").reply = "no_id"
    /\ LastCall("buzzheavier").on = "upload"
    /\ link["buzzheavier"] = NoneStr
    /\ link["pixeldrain"] = "https://pixeldrain.com/u/id"

(***************************************************************************)
(* upload_file calls and retry requests side by side.  on_drop starts a    *)
(* thread per dropped file, a retry button starts a thread per click, and  *)
(* all of them share last_upload_file_path and last_upload_parsed_info.    *)
(* A host's procedure is followed up to its start: what matters here is    *)
(* who started it and with which arguments.                                *)
(***************************************************************************)
PkgB == <<"a", ".", "b", ".", "d">>
OtherName == PkgB \o <<"-", "1">> \o ApkSuffix

\* The files dropped: two that are accepted, one whose name does not parse,
\* one that is missing.
DropFiles ==
    {[name |-> ParseableName, exists |-> TRUE, isfile |-> TRUE],
     [name |-> OtherName, exists |-> TRUE, isfile |-> TRUE],
     [name |-> PkgA \o ApkSuffix, exists |-> TRUE, isfile |-> TRUE],
     [name |-> ParseableName, exists |-> FALSE, isfile |-> FALSE]}

\* The upload variables this component leaves alone.
uploadRest == <<file_path, threadPc, callLog, link, success_count, summary, parse_calls,
                retry_clicks, uploadPc>>

\* The sessions the requests are made in: every host connected, or Gofile
\* left without credentials.
DropSessions ==
    {[h \in Hosts |-> "connected"],
     [h \in Hosts |-> IF h = "gofile" THEN "no_credentials" ELSE "connected"]}

\* The toggles: every host on, or Buzzheavier switched off.
DropToggles == {[h \in Hosts |-> TRUE], [h \in Hosts |-> h # "buzzheavier"]}

DropsInit ==
    /\ \E o \in DropSessions : SessionAfter(o)
    /\ folder_structure = [h \in HierarchicalHosts |-> {}]
    /\ enabled \in DropToggles
    /\ last_upload_parsed_info = None
    /\ last_upload_file_path = <<>>
    /\ file_path = [name |-> <<>>, exists |-> FALSE, isfile |-> FALSE]
    /\ threadPc = [h \in Hosts |-> "off"]
    /\ callLog = [h \in Hosts |-> <<>>]
    /\ link = [h \in Hosts |-> NoneStr]
    /\ status_emoji = [h \in Hosts |-> "none"]
    /\ success_count = 0
    /\ summary = "none"
    /\ link_entry = [h \in Hosts |-> ""]
    /\ parse_calls = 0
    /\ retry_clicks = [h \in Hosts |-> 0]
    /\ uploadPc = "dropped"
    /\ DropsIdle

\* on_drop and the thread it starts: upload_file from its first line to
\* self.last_upload_file_path = file_path, or to one of its early returns.
Drop(d) ==
    /\ dropPc[d] = "idle"
    /\ d > 1 => dropPc[d - 1] # "idle"
    /\ link_entry' = [h \in Hosts |-> ""]
    /\ \E f \in DropFiles :
        /\ dropFile' = [dropFile EXCEPT ![d] = f]
        /\ IF FileAccepted(f) /\ parse_apk_filename(f.name) # None
           THEN /\ last_upload_file_path' = f.name
                /\ dropPc' = [dropPc EXCEPT ![d] = "path_stored"]
           ELSE /\ dropPc' = [dropPc EXCEPT ![d] = "rejected"]
                /\ UNCHANGED last_upload_file_path
    /\ UNCHANGED <<retryPc, retryParsed, lastStart, enabled, last_upload_parsed_info,
                   status_emoji, uploadRest, sessionVars, NotDrops>>

\* self.last_upload_parsed_info = parsed, and the status reset.
DropStoreInfo(d) ==
    /\ dropPc[d] = "path_stored"
    /\ last_upload_parsed_info' = parse_apk_filename(dropFile[d].name)
    /\ status_emoji' = [h \in Hosts |-> "uploading"]
    /\ dropPc' = [dropPc EXCEPT ![d] = "info_stored"]
    /\ UNCHANGED <<dropFile, retryPc, retryParsed, lastStart, enabled,
                   last_upload_file_path, link_entry, uploadRest, sessionVars, NotDrops>>

\* A procedure started for host h, with its arguments; a retry request
\* that started none is kept with by = "refused".
Started(h, path, package, by) ==
    [host |-> h, path |-> path, package |-> package, by |-> by]

\* The three threads of upload_file, each up to the call of its host's
\* procedure with upload_file's own file_path and package.
DropThreads(d) ==
    /\ dropPc[d] = "info_stored"
    /\ lastStart' = {Started(h, dropFile[d].name,
                              parse_apk_filename(dropFile[d].name).package, "upload") :
                          h \in {g \in Hosts : HostEnabled(g) /\ Participates(g)}}
    /\ dropPc' = [dropPc EXCEPT ![d] = "running"]
    /\ UNCHANGED <<dropFile, retryPc, retryParsed, enabled, last_upload_parsed_info,
                   last_upload_file_path, status_emoji, link_entry, uploadRest,
                   sessionVars, NotDrops>>

\* Every request taken as having something to retry.
SomethingRetained(path, info) == FALSE

\* not self.last_upload_file_path or not self.last_upload_parsed_info
NothingRetained(path, info) == path = <<>> \/ info = None

\* retry_<host> on the front end's thread: the two refusals, the reset of
\* the entry and the status, parsed = self.last_upload_parsed_info, and the
\* start of the retry thread.
RetryClick(h) ==
    /\ retryPc[h] = "idle"
    /\ IF NothingRetained(last_upload_file_path, last_upload_parsed_info)
          \/ ~Participates(h)
       THEN /\ lastStart' = {Started(h, <<>>, <<>>, "refused")}
            /\ UNCHANGED <<retryPc, retryParsed, link_entry, status_emoji>>
       ELSE /\ retryPc' = [retryPc EXCEPT ![h] = "clicked"]
            /\ UNCHANGED lastStart
            /\ retryParsed' = [retryParsed EXCEPT ![h] = last_upload_parsed_info]
            /\ link_entry' = [link_entry EXCEPT ![h] = ""]
            /\ status_emoji' = MarkPending(status_emoji, h)
    /\ UNCHANGED <<dropPc, dropFile, enabled, last_upload_parsed_info,
                   last_upload_file_path, uploadRest, sessionVars, NotDrops>>

\* parsed['package'], with nothing captured
PackageOf(info) == IF info = None THEN <<>> ELSE info.package

\* retry_thread up to the call of the host's procedure: the path is read
\* from self.last_upload_file_path now, the identity is the captured one.
RetryThread(h) ==
    /\ retryPc[h] = "clicked"
    /\ lastStart' = {Started(h, last_upload_file_path, PackageOf(retryParsed[h]), "retry")}
    /\ retryPc' = [retryPc EXCEPT ![h] = "idle"]
    /\ retryParsed' = [retryParsed EXCEPT ![h] = None]
    /\ UNCHANGED <<dropPc, dropFile, enabled, last_upload_parsed_info,
                   last_upload_file_path, status_emoji, link_entry, uploadRest,
                   sessionVars, NotDrops>>

DropsNext ==
    \/ \E d \in 1..MaxDrops : Drop(d)
    \/ \E d \in 1..MaxDrops : DropStoreInfo(d)
    \/ \E d \in 1..MaxDrops : DropThreads(d)
    \/ \E h \in Hosts : RetryClick(h)
    \/ \E h \in Hosts : RetryThread(h)

InitDrops ==
    DropsInit /\ ParseIdle /\ RequestIdle /\ StallIdle /\ InitIdle /\ SaveIdle /\ StoreIdle /\ LockIdle /\ PairIdle

SpecDrops == InitDrops /\ [][DropsNext]_vars

\* The package of a name that is accepted.
NamedPackage(path) == IF path = ParseableName THEN PkgA ELSE PkgB

\* C33: the path and the package a retry thread hands to its host's
\* procedure are those of one accepted upload_file call.
C33_RetryArgumentsOfOneAttempt ==
    \A c \in lastStart :
        c.by = "retry" =>
            /\ c.path \in {ParseableName, OtherName}
            /\ c.package = NamedPackage(c.path)

\* C37: no procedure is started, by upload_file or by a retry request, for
\* a host whose toggle is off.
C37_DisabledHostNeverStarted ==
    \A c \in lastStart : c.by \in {"upload", "retry"} => enabled[c.host]

\* C40: the retained path and identity change only in a step of an
\* upload_file call whose file exists, is a regular file and has a name that
\* parses; a call rejected for its file or its name changes neither; and a
\* retry thread is started only with a retained path and identity.
C40_RetainedChangesOnAccept ==
    [][/\ (last_upload_file_path' # last_upload_file_path
              \/ last_upload_parsed_info' # last_upload_parsed_info) =>
          \E d \in 1..MaxDrops :
              /\ dropPc'[d] # dropPc[d]
              /\ dropPc'[d] \in {"path_stored", "info_stored"}
              /\ dropFile'[d].exists
              /\ dropFile'[d].isfile
              /\ dropFile'[d].name \in {ParseableName, OtherName}
       /\ (\E d \in 1..MaxDrops : dropPc'[d] # dropPc[d] /\ dropPc'[d] = "rejected") =>
              /\ last_upload_file_path' = last_upload_file_path
              /\ last_upload_parsed_info' = last_upload_parsed_info
       /\ \A h \in Hosts :
              ((last_upload_file_path = <<>> \/ last_upload_parsed_info = None)
                  /\ retryPc[h] = "idle") =>
                  /\ retryPc'[h] = "idle"
                  /\ \A c \in lastStart' : c.host = h => c.by \notin {"retry"}]_vars

\* After an accepted upload of a.b.c-1.apk a second call was rejected, and a
\* retry request for Pixeldrain started its procedure with the path and the
\* identity the first call left.
C40_Witness ==
    /\ dropPc[1] = "running"
    /\ dropFile[1].name = ParseableName
    /\ dropPc[2] = "rejected"
    /\ last_upload_file_path = ParseableName
    /\ last_upload_parsed_info # None
    /\ last_upload_parsed_info.package = PkgA
    /\ lastStart = {Started("pixeldrain", ParseableName, PkgA, "retry")}

\* C36: a host receives an adapter call of an upload procedure only if its
\* connect-and-verify sequence succeeded, that is its ready flag is set.
C36_UploadOnlyToVerifiedHost ==
    \A h \in Hosts : callLog[h] # <<>> => host_ready[h]

(***************************************************************************)
(* A file dropped while initialize_api runs.  The drop targets are         *)
(* registered before the initialization thread is started, and neither     *)
(* on_drop nor upload_file reads a readiness flag: each host's thread      *)
(* target tests the host's adapter and root folder id as they are then.    *)
(***************************************************************************)
\* on_drop and upload_file for a.b.c-1.apk, a regular file, up to the call
\* of each host's procedure.
DropWhileInitializing ==
    /\ link_entry' = [h \in Hosts |-> ""]
    /\ last_upload_file_path' = ParseableName
    /\ last_upload_parsed_info' = parse_apk_filename(ParseableName)
    /\ status_emoji' = [h \in Hosts |-> "uploading"]
    /\ lastStart' = {Started(h, ParseableName, parse_apk_filename(ParseableName).package,
                             "upload") :
                         h \in {g \in Hosts : HostEnabled(g) /\ Participates(g)}}
    /\ UNCHANGED <<enabled, uploadRest, sessionVars, initVars, lockVars, dropPc, dropFile,
                   retryPc, retryParsed, parseVars, requestVars, stallVars, saveVars,
                   storeVars, pairVars>>

EarlyDropNext ==
    \/ ReadyNext
    \/ DropWhileInitializing

SpecEarlyDrop == InitReady /\ [][EarlyDropNext]_vars

\* C34: a step that starts a hierarchical host's upload procedure is taken
\* only when initialize_api has passed build_folder_structure.
C34_UploadAfterBuild ==
    [][\A c \in lastStart' :
          (c \notin lastStart /\ c.host \in HierarchicalHosts) =>
              initPc \in {"read_flags", "setter", "setter_locked", "done"}]_vars

(***************************************************************************)
(* Procedures of one hierarchical host side by side, for one package and   *)
(* one full name: each is a call of _upload_to_<host> from a thread of its *)
(* own (upload_file's host thread, or a retry thread).  They share the     *)
(* host's folder_structure; the host keeps the folders made.  A procedure  *)
(* is followed to the upload of the file.                                  *)
(***************************************************************************)
ParentIds == <<"p1", "p2", "p3", "p4">>
VersionIds == <<"v1", "v2", "v3", "v4">>

Folder(h, id, under, name) == [host |-> h, id |-> id, under |-> under, name |-> name]

\* The host's folders at the start: none; the package's folder, known to
\* the folder structure; that folder with the version folder in it.
RemoteLayouts(h) ==
    {{}, {Folder(h, "f1", AccountRoot(h), "package")},
     {Folder(h, "f1", AccountRoot(h), "package"), Folder(h, "v0", "f1", "version")}}

PairInit ==
    /\ SessionAfter([h \in Hosts |-> "connected"])
    /\ pairHost \in HierarchicalHosts
    /\ remote \in RemoteLayouts(pairHost)
    /\ folder_structure = [h \in HierarchicalHosts |->
           IF h = pairHost /\ remote # {} THEN KnownParent ELSE {}]
    /\ procPc = [i \in 1..MaxProcs |-> "idle"]
    /\ procParent = [i \in 1..MaxProcs |-> NoneStr]

\* parent_id = self.folder_structure.get(package) and the branch on it.
ProcStart(i) ==
    /\ procPc[i] = "idle"
    /\ LET parent_id == DictGet(folder_structure[pairHost], PkgA)
       IN  /\ procParent' = [procParent EXCEPT ![i] = parent_id]
           /\ procPc' = [procPc EXCEPT ![i] =
                  IF parent_id = NoneStr THEN "create_parent" ELSE "get_parent"]
    /\ UNCHANGED <<pairHost, remote, sessionVars, NotPair>>

\* create_folder(root, package): the host makes the folder and answers with
\* its id; or the answer has no id; or the call raises.
ProcCreateParent(i) ==
    /\ procPc[i] = "create_parent"
    /\ \E reply \in {"id", "no_id"} \cup ErrorKinds :
        IF reply = "id"
        THEN /\ remote' = remote \cup {Folder(pairHost, ParentIds[i], root_folder_id[pairHost], "package")}
             /\ folder_structure' = [folder_structure EXCEPT ![pairHost] =
                    DictSet(@, PkgA, ParentIds[i])]
             /\ procParent' = [procParent EXCEPT ![i] = ParentIds[i]]
             /\ procPc' = [procPc EXCEPT ![i] = "get_parent"]
        ELSE /\ folder_structure' = [folder_structure EXCEPT ![pairHost] =
                    IF pairHost = "gofile" /\ reply = "no_id"
                    THEN DictSet(@, PkgA, NoneStr) ELSE @]
             /\ procPc' = [procPc EXCEPT ![i] = "ended"]
             /\ UNCHANGED <<remote, procParent>>
    /\ UNCHANGED <<pairHost, api, root_folder_id, host_ready, is_ready, cache_data, NotPair>>

\* The folder of that name under the procedure's parent, if the host has one.
HasVersion(i) == \E f \in remote : f.under = procParent[i] /\ f.name = "version"

\* get_content(parent_id) and the search of the children for full_name.
ProcListParent(i) ==
    /\ procPc[i] = "get_parent"
    /\ \E reply \in {"children"} \cup ErrorKinds :
        procPc' = [procPc EXCEPT ![i] =
            IF reply # "children" THEN "ended"
            ELSE IF HasVersion(i) THEN "upload" ELSE "create_version"]
    /\ UNCHANGED <<pairHost, procParent, remote, sessionVars, NotPair>>

\* create_folder(parent_id, full_name)
ProcCreateVersion(i) ==
    /\ procPc[i] = "create_version"
    /\ \E reply \in {"id", "no_id"} \cup ErrorKinds :
        IF reply = "id"
        THEN /\ remote' = remote \cup {Folder(pairHost, VersionIds[i], procParent[i], "version")}
             /\ procPc' = [procPc EXCEPT ![i] = "upload"]
        ELSE /\ procPc' = [procPc EXCEPT ![i] = "ended"]
             /\ UNCHANGED remote
    /\ UNCHANGED <<pairHost, procParent, sessionVars, NotPair>>

PairNext ==
    \/ \E i \in 1..MaxProcs : ProcStart(i)
    \/ \E i \in 1..MaxProcs : ProcCreateParent(i)
    \/ \E i \in 1..MaxProcs : ProcListParent(i)
    \/ \E i \in 1..MaxProcs : ProcCreateVersion(i)

InitPair ==
    PairInit /\ ParseIdle /\ RequestIdle /\ StallIdle /\ InitIdle /\ SaveIdle /\ UploadIdle /\ StoreIdle /\ LockIdle /\ DropsIdle

SpecPair == InitPair /\ [][PairNext]_vars

\* The folders of a name directly under a folder of the host.
FoldersNamed(h, under, name) ==
    {f \in remote : f.host = h /\ f.under = under /\ f.name = name}

\* C35: the host has at most one folder of the package under the root and
\* at most one folder of the full name under a parent folder.
C35_OneParentOneVersion ==
    /\ Cardinality(FoldersNamed(pairHost, root_folder_id[pairHost], "package")) <= 1
    /\ \A p \in FoldersNamed(pairHost, root_folder_id[pairHost], "package") :
           Cardinality(FoldersNamed(pairHost, p.id, "version")) <= 1

(***************************************************************************)
(* Uploads over sessions.  After its initialization a session uploads a    *)
(* file of package a.b.d, which no cache entry and no listing holds, to a  *)
(* hierarchical host; the host keeps the parent folders made for it.       *)
(***************************************************************************)
\* The cache file the first session finds: none, or a fresh entry per host.
AcrossCacheFiles ==
    {AbsentFile}
        \cup {JsonDoc(None, [h \in HierarchicalHosts |->
                  [timestamp |-> Instant(DatetimeNow), root_folder_id |-> AccountRoot(h),
                   folders |-> f]]) : f \in CachedFolders}

AcrossInit ==
    /\ SessionStart
    /\ cache_file \in AcrossCacheFiles
    /\ session = 1
    /\ loadLog = <<>>
    /\ lastSave = None
    /\ roundTrip = None
    /\ scanBuilt = [h \in HierarchicalHosts |-> None]

\* _upload_to_<host> for package a.b.d up to its parent folder: the test of
\* the folder structure, and the create_folder call when it has no entry.
SessionUpload(h) ==
    /\ initPc \in {"done", "died"}
    /\ Participates(h)
    /\ IF DictGet(folder_structure[h], PkgB) # NoneStr
       THEN UNCHANGED <<folder_structure, remote>>
       ELSE \E reply \in {"id", "no_id"} \cup ErrorKinds :
               IF reply = "id"
               THEN /\ remote' = remote \cup
                           {Folder(h, ParentIds[session], root_folder_id[h], "package")}
                    /\ folder_structure' = [folder_structure EXCEPT ![h] =
                           DictSet(@, PkgB, ParentIds[session])]
               ELSE UNCHANGED <<folder_structure, remote>>
    /\ UNCHANGED <<api, root_folder_id, host_ready, is_ready, cache_data, initVars,
                   storeVars, pairHost, procPc, procParent, parseVars, requestVars,
                   stallVars, saveVars, uploadVars, lockVars, dropVars>>

AcrossNext ==
    \/ SessionsNext
    \/ \E h \in HierarchicalHosts : SessionUpload(h)

InitAcross ==
    AcrossInit /\ ParseIdle /\ RequestIdle /\ StallIdle /\ SaveIdle /\ UploadIdle /\ LockIdle /\ DropsIdle /\ PairIdle

SpecAcross == InitAcross /\ [][AcrossNext]_vars

\* C38: a session that built a host's folder structure from a valid cache
\* entry creates a parent folder for the package only if no earlier session
\* has created one on that host.
C38_OneParentAcrossSessions ==
    [][\A h \in HierarchicalHosts :
          (FoldersNamed(h, root_folder_id[h], "package")'
                  # FoldersNamed(h, root_folder_id[h], "package")
              /\ source[h] = "cache") =>
              FoldersNamed(h, root_folder_id[h], "package") = {}]_vars

\* The requests of the call that came back with an error other than HTTP 429.
OtherErrors == {i \in 1..Len(responses) : responses[i] \notin {"ok", "rate_limited"}}

\* C39: a call of an adapter's request-with-retry routine sends at most
\* max_retries + 1 requests; when it has ended it has returned the data or
\* raised an error, never returned without a result; and in the Gofile and
\* Buzzheavier adapters a request that fails with another error than the
\* rate limit is the call's last.
C39_RetryRoutineEnds ==
    op = RetryRoutine =>
        /\ Len(responses) <= max_retries + 1
        /\ attempt <= max_retries
        /\ rqPc = "done" => outcome \notin {"none", "pending"}
        /\ adapter \in {"gofile", "buzzheavier"} =>
              \A i \in OtherErrors : i = Len(responses) /\ rqPc = "done" /\ outcome # "data"

====
